---- MODULE Spec2Model ----
(***************************************************************************)
(* Voting blockchain: the ledger engine and the voting state machine of    *)
(* internal/blockchain/blockchain.go.  Every exported method holds bc.mu   *)
(* for its whole body (Lock/defer Unlock), so each method is one atomic    *)
(* action of the state machine.  Around it: the sliding-window rate        *)
(* limiter, the request pipeline of the router (rate limits, bearer-token  *)
(* authentication, role check, handlers) and the relational mirror with    *)
(* the startup rehydration.                                                *)
(*                                                                         *)
(* Spec      the voting state machine called directly                      *)
(* SpecRate  one RateLimiter with concurrent Allow calls and its sweeper   *)
(* SpecHTTP  the voting state machine behind the router and its middleware *)
(* SpecSync  the voting state machine with the relational mirror           *)
(* SpecMirror  the relational mirror over one voter's ledger               *)
(* SpecRestart  SpecSync with a restart and the startup rehydration         *)
(* SpecLock  the operations on the voting state and the locks they take    *)
(* SpecRedis the voting state machine with the cache mirror                *)
(* SpecLoad  the voting state machine started over a newly deployed store  *)
(* SpecToken JWTManager.RefreshToken over presented tokens                 *)
(* SpecText  Validator.SanitizeString over short strings                   *)
(* SpecCast  the voting state machine over polls that are not anonymous    *)
(* SpecDuration  polls created with any duration_hours                     *)
(* SpecRWMutex  the tasks at the Lock and RLock calls of bc.mu             *)
(* SpecMine  the voting state machine with a manual mine request in flight *)
(***************************************************************************)
EXTENDS Integers, Sequences, FiniteSets, TLC

VARIABLES Chain, PendingVotes, Polls, VoterRegistry, VoteRecords,
          now, accepted,
          limiter,  \* one RateLimiter: client map, clientRate objects, calls
          gate,     \* the rate limiters of the router, per route group
          sync,     \* the locals of the startDBSync goroutine
          db,       \* the tables of the relational store
          mu,       \* bc.mu and the operations that are touching the state
          redis,    \* the startRedisSync goroutine and the blobs it wrote
          refresh,  \* the last call of JWTManager.RefreshToken
          sanitize, \* the last call of Validator.SanitizeString
          rw,       \* bc.mu as a sync.RWMutex and the tasks at its calls
          mineReq   \* a manual mine request between its call and its reply

vars == <<Chain, PendingVotes, Polls, VoterRegistry, VoteRecords,
          now, accepted, limiter, gate, sync, db, mu, redis, refresh,
          sanitize, rw, mineReq>>

\* everything outside the voting state machine
outerVars ==
    <<limiter, gate, sync, db, mu, redis, refresh, sanitize, rw, mineReq>>

(***************************************************************************)
(* Bounds of the exploration.                                              *)
(***************************************************************************)
MaxChain == 4
\* leading ballots accepted with unrestricted inputs
WideVotes == 1
\* ballots accepted in all; after the first WideVotes only ballots of poll 1
\* for its first option are explored, which is how the pending buffer fills
MaxVotes == 5
MaxPolls == 2
MaxTime == 2
\* requests served by the router that changed the voting state
MaxRequests == 3
\* writes the relational store refuses before it accepts every write
MaxFaults == 1
\* process restarts
MaxRestarts == 1
\* ticks of the cache mirror
MaxSnapshots == 1
\* the longest string given to the sanitiser
MaxLen == 3

(***************************************************************************)
(* Program constants.                                                      *)
(***************************************************************************)
Difficulty == 3
MiningThreshold == 5
\* the count of leading zeros of a digest cycles with the nonce through
\* 0..Difficulty, so one nonce in NonceCycle meets the full difficulty
NonceCycle == Difficulty + 1
\* clock ticks per hour of poll duration
TicksPerHour == 2
\* the window of the rate limit tiers, time.Minute, in clock ticks of the
\* limiter; the limiter compares times only with its own window
WindowTicks == 1
\* requests per window of the strict tier
StrictRate == 5

(***************************************************************************)
(* Input domains.                                                          *)
(***************************************************************************)
VoterIDs == {"v1", "v2"}
PollIDs == 1..MaxPolls
Options == <<"A", "B">>
Choices == {"A", "B", "C"}
DurationHours == {1}
EligibleInputs == {<<>>}
Anonymous == "anonymous"
\* client keys of the rate limiter (the client IP of a request)
ClientIDs == {"c1", "c2"}
\* the goroutines that serve requests concurrently
CallIDs == {"g1", "g2"}

ErrPollMissing == "poll does not exist"
ErrPollInactive == "poll is not active"
ErrNotRegistered == "voter not registered"
ErrNotEligible == "voter not eligible for this poll"
ErrDoubleVote == "voter has already voted in this poll"
ErrInvalidChoice == "invalid voting choice"
ErrAlreadyRegistered == "voter already registered"
ErrInvalidSignature ==
    "invalid vote signature: vote authenticity could not be verified"
NoErr == "nil"

Range(s) == {s[i] : i \in DOMAIN s}

(***************************************************************************)
(* Ledger engine.                                                          *)
(***************************************************************************)
\* number of leading zero hex characters of the digest of the hashed fields
LeadingZeros(index, ts, nonce) ==
    (NonceCycle - 1) - ((index + ts + nonce) % NonceCycle)

\* the digest covers index, timestamp, data, previous_hash and nonce
calculateHash(block) ==
    [zeros |-> LeadingZeros(block.Index, block.Timestamp, block.Nonce),
     index |-> block.Index,
     timestamp |-> block.Timestamp,
     data |-> block.Data,
     previous_hash |-> block.PreviousHash,
     nonce |-> block.Nonce]

HasPrefix(hash) == hash.zeros >= Difficulty

RECURSIVE mineFrom(_, _)
mineFrom(block, n) ==
    LET b == [block EXCEPT !.Nonce = n]
        h == calculateHash(b)
    IN  IF HasPrefix(h) THEN [b EXCEPT !.Hash = h] ELSE mineFrom(block, n + 1)

mineBlock(block) == mineFrom(block, block.Nonce)

GenesisData == [type |-> "genesis"]

createGenesisBlock(t) ==
    mineBlock([Index |-> 0, Timestamp |-> t, Data |-> GenesisData,
               PreviousHash |-> "0", Nonce |-> 0, Hash |-> "0"])

\* addBlock linking every new block to the genesis block
addBlock_linkGenesis(chain, data, t) ==
    LET newBlock == [Index |-> Len(chain), Timestamp |-> t, Data |-> data,
                     PreviousHash |-> chain[1].Hash, Nonce |-> 0,
                     Hash |-> "0"]
    IN  Append(chain, mineBlock(newBlock))

\* addBlock storing the new block over the last one
addBlock_overwriteLast(chain, data, t) ==
    LET previousBlock == chain[Len(chain)]
        newBlock == [Index |-> Len(chain), Timestamp |-> t, Data |-> data,
                     PreviousHash |-> previousBlock.Hash, Nonce |-> 0,
                     Hash |-> "0"]
    IN  IF Len(chain) > 1
        THEN [chain EXCEPT ![Len(chain)] = mineBlock(newBlock)]
        ELSE Append(chain, mineBlock(newBlock))

\* the chain after addBlock(data)
addBlock(chain, data, t) ==
    LET previousBlock == chain[Len(chain)]
        newBlock == [Index |-> Len(chain), Timestamp |-> t, Data |-> data,
                     PreviousHash |-> previousBlock.Hash, Nonce |-> 0,
                     Hash |-> "0"]
    IN  Append(chain, mineBlock(newBlock))

VerifyChainOf(chain) ==
    \A i \in 2..Len(chain) :
        /\ chain[i].Hash = calculateHash(chain[i])
        /\ chain[i].PreviousHash = chain[i - 1].Hash
        /\ HasPrefix(chain[i].Hash)

VerifyChain == VerifyChainOf(Chain)

(***************************************************************************)
(* Keys and signatures.  A key pair is named by the owner it was generated *)
(* for; a signature names the key that made it and the data it covers.     *)
(***************************************************************************)
\* the pair the registration handler generates for a new voter
GenerateKeyPair(owner) ==
    [privateKeyPEM |-> <<"private", owner>>,
     publicKeyPEM |-> <<"public", owner>>]

SignData(data, privateKeyPEM) == [key |-> privateKeyPEM, data |-> data]

\* a signature string that no key produced
RawSignature(text) == [key |-> <<"raw", text>>, data |-> <<>>]

\* RSA-PSS verification of the signature over the digest of data
VerifySignature(data, signature, publicKeyPEM) ==
    /\ signature.key[1] = "private"
    /\ <<"public", signature.key[2]>> = publicKeyPEM
    /\ signature.data = data

\* the bytes of a ballot a voter signs
VoteData(pollID, voterID, choice) == <<pollID, voterID, choice>>

\* the signature the voter's own client attaches to a ballot
SignVote(pollID, voterID, choice) ==
    SignData(VoteData(pollID, voterID, choice),
             GenerateKeyPair(voterID).privateKeyPEM)

(***************************************************************************)
(* Construction of the parts around the voting state machine.              *)
(***************************************************************************)
EmptyMap == [k \in {} |-> 0]

\* NewRateLimiter: no client yet.  clients maps a client key to its
\* *clientRate, objects holds the request times of every clientRate that is
\* still referenced, calls is the position of each running Allow call and
\* allowed (history) the times of the requests of each client that were let
\* through within the current window.
NewRateLimiter ==
    [clients |-> EmptyMap,
     objects |-> EmptyMap,
     calls |-> [g \in CallIDs |-> [pc |-> "idle"]],
     swept |-> 0,
     allowed |-> [c \in ClientIDs |-> <<>>]]

\* the limiters of the route groups: the request times on record for each
\* <<limiter, client key>>, and (history) the count of requests that changed
\* the voting state
NewGate == [requests |-> EmptyMap, served |-> 0]

\* the locals of startDBSync; savedVoters and savedPolls hold the keys that
\* map to true
NewSync == [lastBlockIndex |-> -1, savedVoters |-> {}, savedPolls |-> {}]

\* goroutines that call into the voting state: request handlers, the two
\* mirrors, the startup
TaskIDs == {"t1", "t2"}

\* bc.mu unlocked and nobody touching the state
NewMutex ==
    [writer |-> "", readers |-> {}, running |-> [t \in TaskIDs |-> "idle"]]

\* no RefreshToken call yet
NewRefresh == [calls |-> 0]

\* no SanitizeString call yet
NewText == [calls |-> 0]

\* sync.RWMutex unlocked: no reader holds it, no writer holds or awaits it,
\* and every task is outside the methods of the Blockchain
NewRWMutex ==
    [readers |-> 0, writer |-> "", pending |-> {},
     pc |-> [t \in TaskIDs |-> "idle"], op |-> [t \in TaskIDs |-> ""]]

\* no manual mine request in flight
NewMineRequest ==
    [pc |-> "idle", votes_mined |-> 0, mined |-> 0, new_block_index |-> 0]

\* the cache mirror before its first tick: nothing under the three keys
NewRedis ==
    [pc |-> "chain", chain |-> <<>>, polls |-> <<>>, voters |-> EmptyMap,
     ticks |-> 0]

\* the tables blocks, voters, polls and votes by their conflict keys, and
\* (history) the count of writes the store refused and of restarts
NewDB ==
    [blocks |-> EmptyMap, voters |-> EmptyMap, polls |-> EmptyMap,
     votes |-> EmptyMap, faults |-> 0, restarts |-> 0]

(***************************************************************************)
(* Voting state machine.                                                   *)
(***************************************************************************)
Init ==
    /\ Chain = <<createGenesisBlock(0)>>
    /\ PendingVotes = <<>>
    /\ Polls = <<>>
    /\ VoterRegistry = [v \in {} |-> 0]
    /\ VoteRecords = <<>>
    /\ now = 0
    /\ accepted = <<>>
    /\ limiter = NewRateLimiter
    /\ gate = NewGate
    /\ sync = NewSync
    /\ db = NewDB
    /\ mu = NewMutex
    /\ redis = NewRedis
    /\ refresh = NewRefresh
    /\ sanitize = NewText
    /\ rw = NewRWMutex
    /\ mineReq = NewMineRequest

\* the wall clock advances between operations; the program only ever compares
\* it with the window of a poll, so it is advanced while some window is open
Tick ==
    /\ now < MaxTime
    /\ \E p \in DOMAIN Polls : now < Polls[p].EndTime
    /\ now' = now + 1
    /\ UNCHANGED <<Chain, PendingVotes, Polls, VoterRegistry, VoteRecords,
                   accepted>>
    /\ UNCHANGED outerVars

\* the registration emails and the voter ids derived from them
Emails == {"e1", "e2"}

\* the first 16 hex characters of the digest of email + salt
GenerateVoterID(email, salt) == IF email = "e1" THEN "v1" ELSE "v2"

\* the voter struct the registration handler passes to RegisterVoter carries
\* the email its voter id was derived from
EmailOf(voterID) == CHOOSE e \in Emails : GenerateVoterID(e, "") = voterID

\* a registration payload that loses the voter id
regData_noVoter(voterID) ==
    [type |-> "voter_registration", voter_id |-> "", timestamp |-> now]

\* the payload of a voter_registration block
regData(voterID) ==
    [type |-> "voter_registration", voter_id |-> voterID, timestamp |-> now]

\* the error RegisterVoter returns and the registry and chain it leaves
RegisterVoterResult(voterID) ==
    IF voterID \in DOMAIN VoterRegistry
    THEN [err |-> ErrAlreadyRegistered,
          VoterRegistry |-> VoterRegistry,
          Chain |-> Chain]
    ELSE [err |-> NoErr,
          VoterRegistry |->
              [v \in DOMAIN VoterRegistry \cup {voterID} |->
                  IF v = voterID
                  THEN [VoterID |-> voterID,
                        Email |-> EmailOf(voterID),
                        PublicKey |-> GenerateKeyPair(voterID).publicKeyPEM,
                        RegisteredAt |-> now]
                  ELSE VoterRegistry[v]],
          Chain |-> addBlock(Chain, regData(voterID), now)]

\* a rejected registration returns before it writes anything, which is a
\* stuttering step; voter ids are opaque map keys, so the voters are taken
\* to register in the order v1, v2
RegisterVoter(voterID) ==
    LET r == RegisterVoterResult(voterID)
    IN  /\ r.err = NoErr
        /\ Len(Chain) < MaxChain
        /\ voterID = "v2" => "v1" \in DOMAIN VoterRegistry
        /\ VoterRegistry' = r.VoterRegistry
        /\ Chain' = r.Chain
        /\ UNCHANGED <<PendingVotes, Polls, VoteRecords, now, accepted>>
        /\ UNCHANGED outerVars

\* every ordering of the keys of a map (Go map iteration order is not fixed)
Orderings(S) ==
    {s \in [1..Cardinality(S) -> S] : \A i, j \in DOMAIN s : s[i] = s[j] => i = j}

\* the poll the request handler builds from a create-poll request
NewPoll(anon, multi, hours, eligible) ==
    [PollID |-> 0,
     Options |-> Options,
     StartTime |-> now,
     EndTime |-> now + hours * TicksPerHour,
     EligibleVoters |-> eligible,
     AllowMultipleVotes |-> multi,
     IsAnonymous |-> anon]

IsActive(poll) == now > poll.StartTime /\ now < poll.EndTime

\* CreatePoll keeping an empty eligible list empty
CreatePollResult_noSnapshot(newPoll, snapshot) ==
    LET pollID == Len(Polls) + 1
        poll == [newPoll EXCEPT !.PollID = pollID]
    IN  [err |-> NoErr,
         PollID |-> pollID,
         Polls |-> Append(Polls, poll),
         VoteRecords |-> Append(VoteRecords, <<>>),
         Chain |-> addBlock(Chain, [type |-> "poll_creation",
                                    poll |-> poll], now)]

\* the polls, records and chain CreatePoll leaves; snapshot is the order in
\* which the range loop visits the keys of the registry
CreatePollResult(newPoll, snapshot) ==
    LET pollID == Len(Polls) + 1
        poll == [newPoll EXCEPT
                    !.PollID = pollID,
                    !.EligibleVoters = IF Len(@) = 0 THEN snapshot ELSE @]
    IN  [err |-> NoErr,
         PollID |-> pollID,
         Polls |-> Append(Polls, poll),
         VoteRecords |-> Append(VoteRecords, <<>>),
         Chain |-> addBlock(Chain, [type |-> "poll_creation",
                                    poll |-> poll], now)]

CreatePoll(anon, multi, hours, eligibleIn) ==
    /\ Len(Polls) < MaxPolls
    /\ Len(Chain) < MaxChain
    /\ \E snapshot \in Orderings(DOMAIN VoterRegistry) :
          LET r == CreatePollResult(NewPoll(anon, multi, hours, eligibleIn),
                                    snapshot)
          IN  /\ Polls' = r.Polls
              /\ VoteRecords' = r.VoteRecords
              /\ Chain' = r.Chain
    /\ UNCHANGED <<PendingVotes, VoterRegistry, now, accepted>>
    /\ UNCHANGED outerVars

\* the duration_hours a create-poll request can carry, in half hours: the
\* field is a float64 without a binding rule, absent is 0
DurationInputs == {-2, -1, 0, 1, 2}

\* time.Duration(req.DurationHours): the conversion of the float drops the
\* fraction, towards zero
WholeHours(halves) ==
    IF halves >= 0 THEN halves \div 2 ELSE -((-halves) \div 2)

\* the create-poll handler over every duration a request can carry
CreatePollRequest ==
    \E anon, multi \in BOOLEAN, d \in DurationInputs, e \in EligibleInputs :
        CreatePoll(anon, multi, WholeHours(d), e)

\* minePendingVotes copying the buffer from its second ballot on
minePendingVotes_dropFirst(chain, pending, t) ==
    IF Len(pending) = 0 THEN chain
    ELSE addBlock(chain, [type |-> "votes", votes |-> Tail(pending),
                          count |-> Len(pending)], t)

\* the chain after minePendingVotes()
minePendingVotes(chain, pending, t) ==
    IF Len(pending) = 0 THEN chain
    ELSE addBlock(chain, [type |-> "votes", votes |-> pending,
                          count |-> Len(pending)], t)

\* CastVote without the check of the choice
CastVoteError_anyChoice(pollID, voterID, choice) ==
    IF pollID \notin DOMAIN Polls THEN ErrPollMissing
    ELSE IF ~IsActive(Polls[pollID]) THEN ErrPollInactive
    ELSE IF voterID \notin DOMAIN VoterRegistry THEN ErrNotRegistered
    ELSE IF voterID \notin Range(Polls[pollID].EligibleVoters)
         THEN ErrNotEligible
    ELSE IF /\ ~Polls[pollID].AllowMultipleVotes
            /\ voterID \in Range(VoteRecords[pollID])
         THEN ErrDoubleVote
    ELSE NoErr

\* CastVote looking up the voter before it looks at the poll's window
CastVoteError_registeredFirst(pollID, voterID, choice) ==
    IF pollID \notin DOMAIN Polls THEN ErrPollMissing
    ELSE IF voterID \notin DOMAIN VoterRegistry THEN ErrNotRegistered
    ELSE IF ~IsActive(Polls[pollID]) THEN ErrPollInactive
    ELSE IF voterID \notin Range(Polls[pollID].EligibleVoters)
         THEN ErrNotEligible
    ELSE IF /\ ~Polls[pollID].AllowMultipleVotes
            /\ voterID \in Range(VoteRecords[pollID])
         THEN ErrDoubleVote
    ELSE IF choice \notin Range(Polls[pollID].Options) THEN ErrInvalidChoice
    ELSE NoErr

\* the first failing check of CastVote, or NoErr
CastVoteError(pollID, voterID, choice) ==
    IF pollID \notin DOMAIN Polls THEN ErrPollMissing
    ELSE IF ~IsActive(Polls[pollID]) THEN ErrPollInactive
    ELSE IF voterID \notin DOMAIN VoterRegistry THEN ErrNotRegistered
    ELSE IF voterID \notin Range(Polls[pollID].EligibleVoters)
         THEN ErrNotEligible
    ELSE IF /\ ~Polls[pollID].AllowMultipleVotes
            /\ voterID \in Range(VoteRecords[pollID])
         THEN ErrDoubleVote
    ELSE IF choice \notin Range(Polls[pollID].Options) THEN ErrInvalidChoice
    ELSE NoErr

\* a threshold test that fires one ballot late
thresholdReached_late(pending) == Len(pending) > MiningThreshold

\* the pending buffer is mined once it holds MiningThreshold ballots
thresholdReached(pending) == Len(pending) >= MiningThreshold

\* the exploration accepts WideVotes ballots of any kind and then, up to
\* MaxVotes in all, ballots for poll 1 and its first option by any voter
VoteBudget(pollID, choice) ==
    \/ Len(accepted) < WideVotes
    \/ /\ Len(accepted) < MaxVotes
       /\ pollID = 1 /\ choice = Options[1]

\* the ballot CastVote stores: fresh id, timestamp, anonymised voter id
StoredVote(pollID, voterID, choice, signature) ==
    [VoteID |-> Len(accepted) + 1,
     PollID |-> pollID,
     VoterID |-> IF Polls[pollID].IsAnonymous THEN Anonymous ELSE voterID,
     Choice |-> choice,
     Timestamp |-> now,
     Signature |-> signature]

\* CastVote recording the voter before it checks the choice
CastVoteResult_recordFirst(pollID, voterID, choice, signature) ==
    LET err == CastVoteError(pollID, voterID, choice)
    IN  IF err = ErrInvalidChoice
        THEN [err |-> err, VoteID |-> 0, PendingVotes |-> PendingVotes,
              VoteRecords |-> [VoteRecords EXCEPT
                                 ![pollID] = Append(@, voterID)],
              Chain |-> Chain]
        ELSE IF err # NoErr
        THEN [err |-> err, VoteID |-> 0, PendingVotes |-> PendingVotes,
              VoteRecords |-> VoteRecords, Chain |-> Chain]
        ELSE LET vote == StoredVote(pollID, voterID, choice, signature)
                 pending == Append(PendingVotes, vote)
                 mine == thresholdReached(pending)
             IN  [err |-> NoErr,
                  VoteID |-> vote.VoteID,
                  PendingVotes |-> IF mine THEN <<>> ELSE pending,
                  VoteRecords |-> [VoteRecords EXCEPT
                                     ![pollID] = Append(@, vote.VoterID)],
                  Chain |-> IF mine
                            THEN minePendingVotes(Chain, pending, now)
                            ELSE Chain]

\* CastVote putting the new ballot at the head of the buffer
CastVoteResult_prepend(pollID, voterID, choice, signature) ==
    LET err == CastVoteError(pollID, voterID, choice)
    IN  IF err # NoErr
        THEN [err |-> err, VoteID |-> 0, PendingVotes |-> PendingVotes,
              VoteRecords |-> VoteRecords, Chain |-> Chain]
        ELSE LET vote == StoredVote(pollID, voterID, choice, signature)
                 pending == <<vote>> \o PendingVotes
                 mine == thresholdReached(pending)
             IN  [err |-> NoErr,
                  VoteID |-> vote.VoteID,
                  PendingVotes |-> IF mine THEN <<>> ELSE pending,
                  VoteRecords |-> [VoteRecords EXCEPT
                                     ![pollID] = Append(@, vote.VoterID)],
                  Chain |-> IF mine
                            THEN minePendingVotes(Chain, pending, now)
                            ELSE Chain]

\* the error CastVote returns and the buffer, records and chain it leaves
CastVoteResult(pollID, voterID, choice, signature) ==
    LET err == CastVoteError(pollID, voterID, choice)
    IN  IF err # NoErr
        THEN [err |-> err, VoteID |-> 0, PendingVotes |-> PendingVotes,
              VoteRecords |-> VoteRecords, Chain |-> Chain]
        ELSE LET vote == StoredVote(pollID, voterID, choice, signature)
                 pending == Append(PendingVotes, vote)
                 mine == thresholdReached(pending)
             IN  [err |-> NoErr,
                  VoteID |-> vote.VoteID,
                  PendingVotes |-> IF mine THEN <<>> ELSE pending,
                  VoteRecords |-> [VoteRecords EXCEPT
                                     ![pollID] = Append(@, vote.VoterID)],
                  Chain |-> IF mine
                            THEN minePendingVotes(Chain, pending, now)
                            ELSE Chain]

\* a rejected ballot returns before it writes anything, which is a
\* stuttering step; the ballots cast here carry the voter's own signature
CastVote(pollID, voterID, choice) ==
    LET r == CastVoteResult(pollID, voterID, choice,
                            SignVote(pollID, voterID, choice))
    IN  /\ r.err = NoErr
        /\ VoteBudget(pollID, choice)
        /\ Len(r.Chain) <= MaxChain
        /\ PendingVotes' = r.PendingVotes
        /\ VoteRecords' = r.VoteRecords
        /\ Chain' = r.Chain
        /\ accepted' = IF r.err = NoErr
                       THEN Append(accepted, [VoteID |-> r.VoteID,
                                              PollID |-> pollID,
                                              VoterID |-> voterID,
                                              Choice |-> choice])
                       ELSE accepted
        /\ UNCHANGED <<Polls, VoterRegistry, now>>
        /\ UNCHANGED outerVars

\* MinePendingVotesManually leaving the mined ballots in the buffer
MinePendingVotesManuallyResult_keepBuffer ==
    LET votesCount == Len(PendingVotes)
    IN  [ret |-> votesCount,
         Chain |-> IF votesCount > 0
                   THEN minePendingVotes(Chain, PendingVotes, now)
                   ELSE Chain,
         PendingVotes |-> PendingVotes]

\* the count MinePendingVotesManually returns and the chain and buffer it
\* leaves
MinePendingVotesManuallyResult ==
    LET votesCount == Len(PendingVotes)
    IN  [ret |-> votesCount,
         Chain |-> IF votesCount > 0
                   THEN minePendingVotes(Chain, PendingVotes, now)
                   ELSE Chain,
         PendingVotes |-> IF votesCount > 0 THEN <<>> ELSE PendingVotes]

\* with an empty buffer the method returns 0 and writes nothing, which is a
\* stuttering step
MinePendingVotesManually ==
    LET r == MinePendingVotesManuallyResult
    IN  /\ r.ret > 0
        /\ Len(r.Chain) <= MaxChain
        /\ Chain' = r.Chain
        /\ PendingVotes' = r.PendingVotes
        /\ UNCHANGED <<Polls, VoterRegistry, VoteRecords, now, accepted>>
        /\ UNCHANGED outerVars

(***************************************************************************)
(* Tally.                                                                  *)
(***************************************************************************)
\* results[k]++ on a Go map: a missing key starts from zero
Incr(results, k) ==
    IF k \in DOMAIN results THEN [results EXCEPT ![k] = @ + 1]
    ELSE results @@ (k :> 1)

\* a pass that adds every ballot to the total, whatever its poll
RECURSIVE countVotes_totalAll(_, _, _, _)
countVotes_totalAll(votes, i, pollID, acc) ==
    IF i > Len(votes) THEN acc
    ELSE countVotes_totalAll(votes, i + 1, pollID,
            [results |-> IF votes[i].PollID = pollID
                         THEN Incr(acc.results, votes[i].Choice)
                         ELSE acc.results,
             totalVotes |-> acc.totalVotes + 1])

\* one pass over a []models.Vote, counting the ballots of pollID
RECURSIVE countVotes(_, _, _, _)
countVotes(votes, i, pollID, acc) ==
    IF i > Len(votes) THEN acc
    ELSE countVotes(votes, i + 1, pollID,
            IF votes[i].PollID = pollID
            THEN [results |-> Incr(acc.results, votes[i].Choice),
                  totalVotes |-> acc.totalVotes + 1]
            ELSE acc)

\* the pass over all blocks of the chain
RECURSIVE countChain(_, _, _, _)
countChain(chain, i, pollID, acc) ==
    IF i > Len(chain) THEN acc
    ELSE countChain(chain, i + 1, pollID,
            IF chain[i].Data.type = "votes"
            THEN countVotes(chain[i].Data.votes, 1, pollID, acc)
            ELSE acc)

\* the voter_turnout figure in tenths of a percent, "N/A" without eligible voters
Turnout(pollID) ==
    LET n == Len(VoteRecords[pollID])
        d == Len(Polls[pollID].EligibleVoters)
    IN  IF d > 0 THEN (2 * 1000 * n + d) \div (2 * d) ELSE "N/A"

\* a tally that leaves out the pending buffer
GetPollResults_chainOnly(pollID) ==
    IF pollID \notin DOMAIN Polls
    THEN [err |-> ErrPollMissing]
    ELSE LET poll == Polls[pollID]
             zero == [results |-> [o \in Range(poll.Options) |-> 0],
                      totalVotes |-> 0]
             mined == countChain(Chain, 1, pollID, zero)
         IN  [err |-> NoErr,
              PollID |-> pollID,
              Status |-> IF IsActive(poll) THEN "active" ELSE "closed",
              Results |-> mined.results,
              TotalVotes |-> mined.totalVotes,
              VoterTurnout |-> Turnout(pollID)]

GetPollResults(pollID) ==
    IF pollID \notin DOMAIN Polls
    THEN [err |-> ErrPollMissing]
    ELSE LET poll == Polls[pollID]
             zero == [results |-> [o \in Range(poll.Options) |-> 0],
                      totalVotes |-> 0]
             mined == countChain(Chain, 1, pollID, zero)
             all == countVotes(PendingVotes, 1, pollID, mined)
         IN  [err |-> NoErr,
              PollID |-> pollID,
              Status |-> IF IsActive(poll) THEN "active" ELSE "closed",
              Results |-> all.results,
              TotalVotes |-> all.totalVotes,
              VoterTurnout |-> Turnout(pollID)]

\* the entries GetVoterHistory appends for one votes payload
RECURSIVE historyVotes(_, _, _, _, _)
historyVotes(votes, k, voterID, blockIndex, history) ==
    IF k > Len(votes) THEN history
    ELSE historyVotes(votes, k + 1, voterID, blockIndex,
            IF votes[k].VoterID = voterID
            THEN Append(history, [VoteID |-> votes[k].VoteID,
                                  PollID |-> votes[k].PollID,
                                  BlockIndex |-> blockIndex,
                                  Timestamp |-> votes[k].Timestamp])
            ELSE history)

\* the range loop of GetVoterHistory over the chain
RECURSIVE historyChain(_, _, _, _)
historyChain(chain, i, voterID, history) ==
    IF i > Len(chain) THEN history
    ELSE historyChain(chain, i + 1, voterID,
            IF chain[i].Data.type = "votes"
            THEN historyVotes(chain[i].Data.votes, 1, voterID,
                              chain[i].Index, history)
            ELSE history)

\* a history that also walks the pending buffer
GetVoterHistory_withPending(voterID) ==
    historyVotes(PendingVotes, 1, voterID, Len(Chain),
                 historyChain(Chain, 1, voterID, <<>>))

GetVoterHistory(voterID) == historyChain(Chain, 1, voterID, <<>>)

\* the sum of the lengths of the participation records
RECURSIVE totalRecords(_, _)
totalRecords(records, p) ==
    IF p > Len(records) THEN 0
    ELSE Len(records[p]) + totalRecords(records, p + 1)

\* the statistics GetStats returns
GetStats ==
    [ChainLength |-> Len(Chain),
     TotalVotes |-> totalRecords(VoteRecords, 1) + Len(PendingVotes),
     PendingVotes |-> Len(PendingVotes),
     TotalVoters |-> Cardinality(DOMAIN VoterRegistry),
     TotalPolls |-> Len(Polls),
     ActivePolls |-> Cardinality({p \in DOMAIN Polls : IsActive(Polls[p])}),
     BlockchainValid |-> VerifyChain,
     MiningDifficulty |-> Difficulty,
     MiningThreshold |-> MiningThreshold]

Next ==
    \/ Tick
    \/ \E v \in VoterIDs : RegisterVoter(v)
    \/ \E anon, multi \in BOOLEAN, h \in DurationHours, e \in EligibleInputs :
          CreatePoll(anon, multi, h, e)
    \/ \E p \in PollIDs, v \in VoterIDs, c \in Choices : CastVote(p, v, c)
    \/ MinePendingVotesManually

Spec == Init /\ [][Next]_vars

\* the voting state machine over polls that record the voter ids
NextCast ==
    \/ Tick
    \/ \E v \in VoterIDs : RegisterVoter(v)
    \/ \E multi \in BOOLEAN, h \in DurationHours, e \in EligibleInputs :
          CreatePoll(FALSE, multi, h, e)
    \/ \E p \in PollIDs, v \in VoterIDs, c \in Choices : CastVote(p, v, c)
    \/ MinePendingVotesManually

SpecCast == Init /\ [][NextCast]_vars

\* the voting state machine with create-poll requests of any duration
NextDuration ==
    \/ Tick
    \/ \E v \in VoterIDs : RegisterVoter(v)
    \/ CreatePollRequest

SpecDuration == Init /\ [][NextDuration]_vars

(***************************************************************************)
(* Rate limiter (middleware.RateLimiter).  Allow reads the client map      *)
(* under rl.mu, releases it, and only then takes the mutex of the          *)
(* clientRate it found, so an Allow call is three steps: the lookup, the   *)
(* creation of a missing entry, and the filter-check-append under          *)
(* client.mu.  cleanup holds rl.mu for a whole sweep.                      *)
(***************************************************************************)
\* the request times after windowStart, in order
RECURSIVE validRequests(_, _)
validRequests(requests, windowStart) ==
    IF requests = <<>> THEN <<>>
    ELSE (IF Head(requests) > windowStart THEN <<Head(requests)>> ELSE <<>>)
         \o validRequests(Tail(requests), windowStart)

\* a clientRate stays in memory while the map or a running call refers to it
Referenced(clients, calls) ==
    {clients[c] : c \in DOMAIN clients}
        \cup {calls[g].client : g \in {h \in CallIDs : calls[h].pc = "record"}}

Restrict(f, S) == [x \in DOMAIN f \cap S |-> f[x]]

\* the first step of Allow(clientID): client, exists := rl.clients[clientID]
AllowLookup(g, clientID) ==
    /\ limiter.calls[g].pc = "idle"
    /\ limiter' = [limiter EXCEPT !.calls[g] =
            IF clientID \in DOMAIN limiter.clients
            THEN [pc |-> "record", clientID |-> clientID,
                  client |-> limiter.clients[clientID]]
            ELSE [pc |-> "create", clientID |-> clientID]]
    /\ UNCHANGED <<Chain, PendingVotes, Polls, VoterRegistry, VoteRecords,
                   now, accepted, gate, sync, db, mu, redis, refresh, sanitize,
                   rw, mineReq>>

\* the second step, under rl.mu.Lock: the double check and the new clientRate
AllowCreate(g) ==
    /\ limiter.calls[g].pc = "create"
    /\ LET clientID == limiter.calls[g].clientID
           fresh == <<clientID,
                      CHOOSE n \in 1..(Cardinality(DOMAIN limiter.objects) + 1) :
                          /\ <<clientID, n>> \notin DOMAIN limiter.objects
                          /\ \A m \in 1..(n - 1) :
                                <<clientID, m>> \in DOMAIN limiter.objects>>
       IN  IF clientID \in DOMAIN limiter.clients
           THEN limiter' = [limiter EXCEPT !.calls[g] =
                    [pc |-> "record", clientID |-> clientID,
                     client |-> limiter.clients[clientID]]]
           ELSE limiter' = [limiter EXCEPT
                    !.clients = @ @@ (clientID :> fresh),
                    !.objects = @ @@ (fresh :> <<>>),
                    !.calls[g] = [pc |-> "record", clientID |-> clientID,
                                  client |-> fresh]]
    /\ UNCHANGED <<Chain, PendingVotes, Polls, VoterRegistry, VoteRecords,
                   now, accepted, gate, sync, db, mu, redis, refresh, sanitize,
                   rw, mineReq>>

\* the third step, under client.mu: what Allow returns and the request
\* times it leaves in the clientRate
AllowResult(requests, rate) ==
    LET valid == validRequests(requests, now - WindowTicks)
    IN  IF Len(valid) >= rate
        THEN [allowed |-> FALSE, requests |-> valid]
        ELSE [allowed |-> TRUE, requests |-> Append(valid, now)]

AllowRecord(g) ==
    /\ limiter.calls[g].pc = "record"
    /\ LET clientID == limiter.calls[g].clientID
           client == limiter.calls[g].client
           r == AllowResult(limiter.objects[client], StrictRate)
           calls == [limiter.calls EXCEPT ![g] = [pc |-> "idle"]]
       IN  limiter' = [limiter EXCEPT
               !.calls = calls,
               !.objects = Restrict([@ EXCEPT ![client] = r.requests],
                                    Referenced(limiter.clients, calls)),
               !.allowed[clientID] =
                   IF r.allowed THEN Append(@, now) ELSE @]
    /\ UNCHANGED <<Chain, PendingVotes, Polls, VoterRegistry, VoteRecords,
                   now, accepted, gate, sync, db, mu, redis, refresh, sanitize,
                   rw, mineReq>>

\* the sweep of the cleanup goroutine, every 2 * window
CleanUpTicks == 2 * WindowTicks

cleanup ==
    /\ now > limiter.swept
    /\ now % CleanUpTicks = 0
    /\ LET windowStart == now - WindowTicks
           stale == {c \in DOMAIN limiter.clients :
                       LET requests == limiter.objects[limiter.clients[c]]
                       IN  \/ Len(requests) = 0
                           \/ requests[Len(requests)] < windowStart}
           clients == Restrict(limiter.clients, DOMAIN limiter.clients \ stale)
       IN  limiter' = [limiter EXCEPT
               !.clients = clients,
               !.objects = Restrict(@, Referenced(clients, limiter.calls)),
               !.swept = now]
    /\ UNCHANGED <<Chain, PendingVotes, Polls, VoterRegistry, VoteRecords,
                   now, accepted, gate, sync, db, mu, redis, refresh, sanitize,
                   rw, mineReq>>

\* the wall clock of the limiter; the history keeps the current window
RateTick ==
    /\ now < MaxTime
    /\ now' = now + 1
    /\ limiter' = [limiter EXCEPT !.allowed =
           [c \in ClientIDs |->
               validRequests(limiter.allowed[c], now + 1 - WindowTicks)]]
    /\ UNCHANGED <<Chain, PendingVotes, Polls, VoterRegistry, VoteRecords,
                   accepted, gate, sync, db, mu, redis, refresh, sanitize,
                   rw, mineReq>>

NextRate ==
    \/ RateTick
    \/ \E g \in CallIDs, c \in ClientIDs : AllowLookup(g, c)
    \/ \E g \in CallIDs : AllowCreate(g)
    \/ \E g \in CallIDs : AllowRecord(g)
    \/ cleanup

SpecRate == Init /\ [][NextRate]_vars

(***************************************************************************)
(* Tokens (auth.JWTManager).  A token carries its claims and the secret it *)
(* was signed with.                                                        *)
(***************************************************************************)
JWTSecret == "JWT_SECRET"
\* tokenDuration, in hours
TokenHours == 24
\* the id of the administrator account of the admin store
AdminID == "admin_1"
\* the email of the administrator account
AdminEmail == "admin"

NoToken ==
    [alg |-> "", secret |-> "", UserID |-> "", Email |-> "", Role |-> "",
     VoterID |-> "", ExpiresAt |-> 0, NotBefore |-> 0]

\* a token issued at this time: HS256 over the claims, with exp and nbf
tokenAt(userID, email, role, voterID, t) ==
    [alg |-> "HS256", secret |-> JWTSecret, UserID |-> userID,
     Email |-> email, Role |-> role, VoterID |-> voterID,
     ExpiresAt |-> t + TokenHours * TicksPerHour, NotBefore |-> t]

GenerateToken(userID, email, role, voterID) ==
    tokenAt(userID, email, role, voterID, now)

\* the signing method is an HMAC, the HMAC was made with the secret, the
\* token has not expired and its nbf has come
ValidateToken(token) ==
    /\ token.alg = "HS256"
    /\ token.secret = JWTSecret
    /\ now < token.ExpiresAt
    /\ ~(now < token.NotBefore)

\* RefreshToken without the validation of the old token
RefreshToken_noValidate(oldToken) ==
    [err |-> FALSE,
     token |-> GenerateToken(oldToken.UserID, oldToken.Email, oldToken.Role,
                             oldToken.VoterID)]

\* RefreshToken: the error, or the token issued with the claims of the old
RefreshToken(oldToken) ==
    IF ~ValidateToken(oldToken) THEN [err |-> TRUE, token |-> NoToken]
    ELSE [err |-> FALSE,
          token |-> GenerateToken(oldToken.UserID, oldToken.Email,
                                  oldToken.Role, oldToken.VoterID)]

\* the lifetime of a token in clock ticks
TokenTicks == TokenHours * TicksPerHour

\* the times at which the tokens presented for a refresh were issued: long
\* enough ago to have expired now or at the next tick, just before, a tick
\* ago, now, and (the clock of another host) a tick ahead
IssueTimes ==
    {now - TokenTicks - 1, now - TokenTicks, now - TokenTicks + 1,
     now - 1, now, now + 1}

\* the tokens presented for a refresh: tokens of the administrator and of
\* the voters, as issued, signed with another secret, or unsigned
RefreshInputs ==
    LET issued == {tokenAt(AdminID, AdminEmail, "admin", "", t) :
                      t \in IssueTimes}
                  \cup {tokenAt(v, EmailOf(v), "voter", v, t) :
                           v \in VoterIDs, t \in IssueTimes}
    IN  issued \cup {[t EXCEPT !.secret = "guess"] : t \in issued}
               \cup {[t EXCEPT !.alg = "none"] : t \in issued}

\* one call of RefreshToken, with the time of the call and what it returned
RefreshTokenCall(oldToken) ==
    /\ refresh' = [calls |-> 1, at |-> now, presented |-> oldToken,
                   err |-> RefreshToken(oldToken).err,
                   token |-> RefreshToken(oldToken).token]
    /\ UNCHANGED <<Chain, PendingVotes, Polls, VoterRegistry, VoteRecords,
                   now, accepted, limiter, gate, sync, db, mu, redis, sanitize,
                   rw, mineReq>>

\* the wall clock between two calls
ClockTick ==
    /\ now < MaxTime
    /\ now' = now + 1
    /\ UNCHANGED <<Chain, PendingVotes, Polls, VoterRegistry, VoteRecords,
                   accepted>>
    /\ UNCHANGED outerVars

NextToken ==
    \/ ClockTick
    \/ \E t \in RefreshInputs : RefreshTokenCall(t)
    \/ /\ refresh.calls > 0
       /\ ~refresh.err
       /\ RefreshTokenCall(refresh.token)

SpecToken == Init /\ [][NextToken]_vars

\* the tokens a client can present: the ones the server issues to the
\* administrator and to voters, a token signed with another secret and a
\* token of an earlier day
TokenInputs ==
    LET admin == GenerateToken(AdminID, AdminEmail, "admin", "")
    IN  {admin, [admin EXCEPT !.secret = "guess"], [admin EXCEPT !.ExpiresAt = now]}
            \cup {GenerateToken(v, EmailOf(v), "voter", v) : v \in VoterIDs}

\* Authorization headers: absent, not a Bearer header, Bearer <token>
HeaderInputs ==
    {[kind |-> "none", token |-> NoToken], [kind |-> "basic", token |-> NoToken]}
        \cup {[kind |-> "bearer", token |-> t] : t \in TokenInputs}

(***************************************************************************)
(* Middleware.  A request context is the response status (0 while the      *)
(* chain goes on), the stages that ran, the claims AuthMiddleware stored   *)
(* and the request times of the limiters.                                  *)
(***************************************************************************)
\* requests per window of the moderate tier
ModerateRate == 30

\* rl.Middleware of the limiter of a route group, for one client key; the
\* limiters of the router are taken one Allow call at a time
RateLimit(ctx, name, rate, clientIP) ==
    LET key == <<name, clientIP>>
        requests == IF key \in DOMAIN ctx.gate THEN ctx.gate[key] ELSE <<>>
        r == AllowResult(requests, rate)
    IN  [ctx EXCEPT !.stages = Append(@, "rate"),
                    !.gate = (key :> r.requests) @@ @,
                    !.status = IF r.allowed THEN 0 ELSE 429]

AuthMiddleware(ctx, header) ==
    LET c == [ctx EXCEPT !.stages = Append(@, "auth")]
    IN  IF header.kind = "none" THEN [c EXCEPT !.status = 401]
        ELSE IF header.kind # "bearer" THEN [c EXCEPT !.status = 401]
        ELSE IF ~ValidateToken(header.token) THEN [c EXCEPT !.status = 401]
        ELSE [c EXCEPT !.claims = header.token]

\* a role check that lets every authenticated user through
RequireRole_anyRole(ctx, requiredRole) ==
    LET c == [ctx EXCEPT !.stages = Append(@, "role")]
    IN  IF c.claims = NoToken THEN [c EXCEPT !.status = 403] ELSE c

RequireRole(ctx, requiredRole) ==
    LET c == [ctx EXCEPT !.stages = Append(@, "role")]
    IN  IF c.claims = NoToken \/ c.claims.Role # requiredRole
        THEN [c EXCEPT !.status = 403]
        ELSE c

\* the middleware of the route groups of the router, in the order of Use
Routes == {"register", "voter-login", "vote", "history", "polls", "mine"}

RouteChain(route) ==
    CASE route = "register" ->
            <<[mw |-> "rate", arg |-> "register"]>>
      [] route = "voter-login" ->
            <<[mw |-> "rate", arg |-> "auth"]>>
      [] route \in {"vote", "history"} ->
            <<[mw |-> "auth", arg |-> ""],
              [mw |-> "rate", arg |-> "authenticated"]>>
      [] route \in {"polls", "mine"} ->
            <<[mw |-> "auth", arg |-> ""],
              [mw |-> "role", arg |-> "admin"],
              [mw |-> "rate", arg |-> "admin"]>>

TierRate(name) ==
    IF name \in {"register", "auth"} THEN StrictRate ELSE ModerateRate

\* c.Next(): the chain runs until a middleware aborts
RECURSIVE RunChain(_, _, _, _, _)
RunChain(chain, i, ctx, clientIP, header) ==
    IF i > Len(chain) \/ ctx.status # 0 THEN ctx
    ELSE LET mw == chain[i]
             next == CASE mw.mw = "rate" ->
                            RateLimit(ctx, mw.arg, TierRate(mw.arg), clientIP)
                       [] mw.mw = "auth" -> AuthMiddleware(ctx, header)
                       [] mw.mw = "role" -> RequireRole(ctx, mw.arg)
         IN  RunChain(chain, i + 1, next, clientIP, header)

(***************************************************************************)
(* Handlers.  A response is the status, the token of a login and the       *)
(* voting state the handler leaves.                                        *)
(***************************************************************************)
Ledger ==
    [VoterRegistry |-> VoterRegistry, Chain |-> Chain, Polls |-> Polls,
     VoteRecords |-> VoteRecords, PendingVotes |-> PendingVotes]

Response(status, ledger) ==
    [status |-> status, token |-> NoToken, ledger |-> ledger, ran |-> <<>>]

\* ShouldBindJSON fails on a body that is not the JSON the handler expects
RegisterVoterHandler(body) ==
    IF body.malformed THEN Response(400, Ledger)
    ELSE LET r == RegisterVoterResult(GenerateVoterID(body.email, ""))
         IN  IF r.err # NoErr
             THEN [Response(400, Ledger) EXCEPT !.ran = <<"machine">>]
             ELSE [Response(200, [Ledger EXCEPT
                                    !.VoterRegistry = r.VoterRegistry,
                                    !.Chain = r.Chain])
                      EXCEPT !.ran = <<"machine">>]

CreatePollHandler(body, snapshot) ==
    IF body.malformed THEN Response(400, Ledger)
    ELSE LET r == CreatePollResult(
                      NewPoll(body.is_anonymous, body.allow_multiple_votes,
                              body.duration_hours, body.eligible_voters),
                      snapshot)
         IN  [Response(200, [Ledger EXCEPT !.Polls = r.Polls,
                                           !.VoteRecords = r.VoteRecords,
                                           !.Chain = r.Chain])
                 EXCEPT !.ran = <<"machine">>]

SubmitVote(body) ==
    IF body.malformed THEN Response(400, Ledger)
    ELSE LET r == CastVoteResult(body.poll_id, body.voter_id, body.choice,
                                 body.signature)
         IN  IF r.err # NoErr
             THEN [Response(400, Ledger) EXCEPT !.ran = <<"machine">>]
             ELSE [Response(200, [Ledger EXCEPT
                                    !.PendingVotes = r.PendingVotes,
                                    !.VoteRecords = r.VoteRecords,
                                    !.Chain = r.Chain])
                      EXCEPT !.ran = <<"machine">>]

GetVoterHistoryHandler(voterID) ==
    IF voterID \notin DOMAIN VoterRegistry
    THEN Response(404, Ledger)
    ELSE [Response(200, Ledger) EXCEPT !.ran = <<"machine">>]

MinePendingVotesHandler ==
    LET r == MinePendingVotesManuallyResult
    IN  IF r.ret = 0
        THEN [Response(400, Ledger) EXCEPT !.ran = <<"machine">>]
        ELSE [Response(200, [Ledger EXCEPT !.Chain = r.Chain,
                                           !.PendingVotes = r.PendingVotes])
                 EXCEPT !.ran = <<"machine">>]

\* the private keys a client can present: the keys of the voters, the key
\* of somebody else and a string that is no key
KeyInputs ==
    {GenerateKeyPair(o).privateKeyPEM : o \in VoterIDs \cup {"x"}}
        \cup {<<"raw", "not a key">>}

\* the challenge bound to the voter id, signed with the presented key, must
\* verify under the stored public key
VerifyPrivateKeyOwnership(privateKeyPEM, publicKeyPEM, voterID) ==
    LET challenge == <<"challenge", voterID>>
    IN  VerifySignature(challenge, SignData(challenge, privateKeyPEM),
                        publicKeyPEM)

\* a login that does not look at the private key
VoterLogin_anyKey(body) ==
    IF body.malformed THEN Response(400, Ledger)
    ELSE IF body.voter_id \notin DOMAIN VoterRegistry
    THEN Response(401, Ledger)
    ELSE LET voter == VoterRegistry[body.voter_id]
         IN  [Response(200, Ledger) EXCEPT
                 !.token = GenerateToken(voter.VoterID, voter.Email, "voter",
                                         voter.VoterID)]

VoterLogin(body) ==
    IF body.malformed THEN Response(400, Ledger)
    ELSE IF body.voter_id \notin DOMAIN VoterRegistry
    THEN Response(401, Ledger)
    ELSE LET voter == VoterRegistry[body.voter_id]
         IN  IF ~VerifyPrivateKeyOwnership(body.private_key, voter.PublicKey,
                                           voter.VoterID)
             THEN Response(401, Ledger)
             ELSE [Response(200, Ledger) EXCEPT
                     !.token = GenerateToken(voter.VoterID, voter.Email, "voter",
                                             voter.VoterID)]

\* the request bodies and path parameters of each route
Bodies(route) ==
    CASE route = "register" ->
            [email : Emails, malformed : BOOLEAN]
      [] route = "voter-login" ->
            [voter_id : VoterIDs \cup {"v0"}, private_key : KeyInputs,
             malformed : BOOLEAN]
      [] route = "vote" ->
            {[poll_id |-> p, voter_id |-> v, choice |-> c,
              signature |-> IF signed THEN SignVote(p, v, c)
                            ELSE RawSignature("test_signature"),
              malformed |-> m] :
                p \in PollIDs, v \in VoterIDs, c \in Choices,
                signed \in BOOLEAN, m \in BOOLEAN}
      [] route = "history" ->
            [voter_id : VoterIDs, malformed : {FALSE}]
      [] route = "polls" ->
            [is_anonymous : BOOLEAN, allow_multiple_votes : BOOLEAN,
             duration_hours : DurationHours, eligible_voters : EligibleInputs,
             malformed : BOOLEAN]
      [] route = "mine" ->
            [malformed : {FALSE}]

Handle(route, body, snapshot) ==
    CASE route = "register" -> RegisterVoterHandler(body)
      [] route = "voter-login" -> VoterLogin(body)
      [] route = "vote" -> SubmitVote(body)
      [] route = "history" -> GetVoterHistoryHandler(body.voter_id)
      [] route = "polls" -> CreatePollHandler(body, snapshot)
      [] route = "mine" -> MinePendingVotesHandler

\* the response to a request whose middleware chain ended in ctx
Respond(ctx, route, body, snapshot) ==
    IF ctx.status # 0
    THEN [status |-> ctx.status, stages |-> ctx.stages,
          gate |-> ctx.gate, token |-> NoToken, ledger |-> Ledger]
    ELSE LET r == Handle(route, body, snapshot)
         IN  [status |-> r.status,
              stages |-> ctx.stages \o <<"validate">> \o r.ran,
              gate |-> ctx.gate, token |-> r.token, ledger |-> r.ledger]

\* router.ServeHTTP: the middleware chain of the route, then its handler.
\* stages lists what ran: "rate", "auth", "role", then "validate" for the
\* binding of the body and "machine" for the call of the voting state machine
ServeHTTP(route, clientIP, header, body, snapshot) ==
    LET start == [status |-> 0, stages |-> <<>>, claims |-> NoToken,
                  gate |-> gate.requests]
    IN  Respond(RunChain(RouteChain(route), 1, start, clientIP, header),
                route, body, snapshot)

\* an error body: success, error and error_code, which is empty when the
\* body is written without the key (gin.H without it, APIResponse, omitempty)
NoErrorCode == ""

ErrorBody(error, errorCode) ==
    [success |-> FALSE, error |-> error, error_code |-> errorCode]

\* the body RateLimiter.Middleware writes with 429
RateLimitBody ==
    ErrorBody("Rate limit exceeded. Please try again later.", NoErrorCode)

\* the body AuthMiddleware writes with 401
AuthBody(header) ==
    IF header.kind = "none"
    THEN ErrorBody("Authorization header required", NoErrorCode)
    ELSE IF header.kind # "bearer"
    THEN ErrorBody("Invalid authorization header format. Use: Bearer <token>",
                   NoErrorCode)
    ELSE ErrorBody("Invalid or expired token", NoErrorCode)

\* the body RequireRole writes with 403
RoleBody == ErrorBody("Insufficient permissions", NoErrorCode)

\* the APIResponse a handler writes with an error status
HandlerErrorBody == ErrorBody("err.Error()", NoErrorCode)

\* the body of router.NoRoute
NotFoundHandler == ErrorBody("Endpoint not found", "NOT_FOUND")

\* the body of the response r to a request with this header: the body of
\* the stage that ended the request
ResponseBody(r, header) ==
    LET last == r.stages[Len(r.stages)]
    IN  IF r.status < 400
        THEN [success |-> TRUE, error |-> "", error_code |-> NoErrorCode]
        ELSE IF last = "rate" THEN RateLimitBody
        ELSE IF last = "auth" THEN AuthBody(header)
        ELSE IF last = "role" THEN RoleBody
        ELSE HandlerErrorBody

\* the header of the owner of a request: the voter's token on a ballot, the
\* administrator's token on the admin routes
OwnHeader(route, body) ==
    IF route \in {"polls", "mine"}
    THEN [kind |-> "bearer", token |-> GenerateToken(AdminID, AdminEmail, "admin", "")]
    ELSE IF route \in {"vote", "history"}
    THEN [kind |-> "bearer",
          token |-> GenerateToken(body.voter_id, EmailOf(body.voter_id), "voter",
                                 body.voter_id)]
    ELSE [kind |-> "none", token |-> NoToken]

\* the clients whose requests the exploration of the router serves; the
\* limiters keep clients apart (SpecRate)
GatewayClients == {"c1"}

\* the iteration orders that matter to a route
Snapshots(route) ==
    IF route = "polls" THEN Orderings(DOMAIN VoterRegistry) ELSE {<<>>}

\* one request served from arrival to response.  In this router a request
\* that AuthMiddleware or RequireRole turns away has met no limiter and
\* leaves no trace (a stuttering step), and no handler reads the claims, so
\* the state a request leaves does not depend on which of the headers that
\* pass it carries: the requests served here carry the header of their
\* owner.  The exploration keeps the bounds of the voting state machine and
\* serves the requests that change the voting state, WideVotes ballots and
\* MaxRequests requests in all; the limiters under load are explored in
\* SpecRate.
Serve(route, clientIP, body) ==
    /\ gate.served < MaxRequests
    /\ route \in {"register", "polls", "vote", "mine"}
    /\ \E snapshot \in Snapshots(route) :
        \E r \in {ServeHTTP(route, clientIP, OwnHeader(route, body), body,
                            snapshot)} :
        LET voted == route = "vote" /\ r.status = 200
        IN  /\ r.ledger # Ledger
            /\ Len(r.ledger.Chain) <= MaxChain
            /\ Len(r.ledger.Polls) <= MaxPolls
            /\ voted => Len(accepted) < WideVotes
            /\ "v2" \in DOMAIN r.ledger.VoterRegistry
                  => "v1" \in DOMAIN r.ledger.VoterRegistry
            /\ gate' = [requests |-> r.gate, served |-> gate.served + 1]
            /\ VoterRegistry' = r.ledger.VoterRegistry
            /\ Chain' = r.ledger.Chain
            /\ Polls' = r.ledger.Polls
            /\ VoteRecords' = r.ledger.VoteRecords
            /\ PendingVotes' = r.ledger.PendingVotes
            /\ accepted' =
                  IF voted
                  THEN Append(accepted, [VoteID |-> Len(accepted) + 1,
                                         PollID |-> body.poll_id,
                                         VoterID |-> body.voter_id,
                                         Choice |-> body.choice])
                  ELSE accepted
            /\ UNCHANGED <<now, limiter, sync, db, mu, redis, refresh, sanitize,
                   rw, mineReq>>

\* the wall clock of the server.  Allow drops the request times that left
\* the window before it reads the list, so they are dropped as they leave.
ServerTick ==
    /\ now < MaxTime
    /\ \E p \in DOMAIN Polls : now < Polls[p].EndTime
    /\ now' = now + 1
    /\ gate' = [gate EXCEPT !.requests =
                   [k \in DOMAIN @ |->
                       validRequests(@[k], now + 1 - WindowTicks)]]
    /\ UNCHANGED <<Chain, PendingVotes, Polls, VoterRegistry, VoteRecords,
                   accepted, limiter, sync, db, mu, redis, refresh, sanitize,
                   rw, mineReq>>

NextHTTP ==
    \/ ServerTick
    \/ \E route \in Routes, clientIP \in GatewayClients :
          \E body \in Bodies(route) : Serve(route, clientIP, body)

SpecHTTP == Init /\ [][NextHTTP]_vars

(***************************************************************************)
(* Relational mirror (persistence.Manager).  Every INSERT is ON CONFLICT   *)
(* DO NOTHING on the key of its table, so a row is written once.  The sync *)
(* goroutine reads the chain and the maps without the lock of the          *)
(* blockchain; a tick sees them before or after a concurrent operation, or *)
(* the runtime stops the process on a concurrent map access (Restart).     *)
(***************************************************************************)
\* an insert that replaces the rows of the table by the new ones
Insert_replace(table, rows) == rows

\* INSERT ... ON CONFLICT (key) DO NOTHING of the rows that did not fail
Insert(table, rows) == table @@ rows

MaxOf(S) == CHOOSE x \in S : \A y \in S : y <= x

\* the votes of the votes blocks of the chain, with the index of their block
ChainVotes ==
    UNION {{[vote |-> Chain[i].Data.votes[k], block_index |-> Chain[i].Index] :
               k \in DOMAIN Chain[i].Data.votes} :
           i \in {j \in DOMAIN Chain : Chain[j].Data.type = "votes"}}

\* the foreign keys of the votes table: the store refuses a ballot whose
\* poll_id has no row in polls or whose voter_id has no row in voters
ForeignKeys(vote, pollRows, voterRows) ==
    vote.PollID \in pollRows /\ vote.VoterID \in voterRows

\* one tick of startDBSync in which the writes in failed return an error;
\* the ballots are written after the voters and the polls
DBSync(failed) ==
    LET blocks == {i \in (sync.lastBlockIndex + 1)..(Len(Chain) - 1) :
                      i \notin failed.blocks}
        voters == {v \in DOMAIN VoterRegistry :
                      v \notin sync.savedVoters /\ v \notin failed.voters}
        polls == {p \in DOMAIN Polls :
                      p \notin sync.savedPolls /\ p \notin failed.polls}
        votes == {r \in ChainVotes :
                     /\ r.vote.VoteID \notin failed.votes
                     /\ ForeignKeys(r.vote, DOMAIN db.polls \cup polls,
                                    DOMAIN db.voters \cup voters)}
    IN  /\ sync' = [lastBlockIndex |-> IF blocks = {} THEN sync.lastBlockIndex
                                       ELSE MaxOf(blocks),
                    savedVoters |-> sync.savedVoters \cup voters,
                    savedPolls |-> sync.savedPolls \cup polls]
        /\ db' = [db EXCEPT
              !.blocks = Insert(@, [i \in blocks |-> Chain[i + 1]]),
              !.voters = Insert(@, [v \in voters |-> VoterRegistry[v]]),
              !.polls = Insert(@, [p \in polls |-> Polls[p]]),
              !.votes = Insert(@, [id \in {r.vote.VoteID : r \in votes} |->
                                     CHOOSE r \in votes : r.vote.VoteID = id]),
              !.faults = @ + Cardinality(failed.blocks)
                           + Cardinality(failed.voters)
                           + Cardinality(failed.polls)
                           + Cardinality(failed.votes)]
        /\ UNCHANGED <<Chain, PendingVotes, Polls, VoterRegistry, VoteRecords,
                       now, accepted, limiter, gate,
                       mu, redis, refresh, sanitize,
                   rw, mineReq>>

\* the writes of the coming tick that the store may refuse: at most
\* MaxFaults writes are refused in all
Failures ==
    {f \in [blocks : SUBSET ((sync.lastBlockIndex + 1)..(Len(Chain) - 1)),
            voters : SUBSET (DOMAIN VoterRegistry \ sync.savedVoters),
            polls : SUBSET (DOMAIN Polls \ sync.savedPolls),
            votes : SUBSET {r.vote.VoteID : r \in ChainVotes}] :
        db.faults + Cardinality(f.blocks) + Cardinality(f.voters)
            + Cardinality(f.polls) + Cardinality(f.votes) <= MaxFaults}

DBSyncTick == \E failed \in Failures : DBSync(failed)

NextSync ==
    \/ Tick
    \/ \E v \in VoterIDs : RegisterVoter(v)
    \/ \E anon, multi \in BOOLEAN, h \in DurationHours, e \in EligibleInputs :
          CreatePoll(anon, multi, h, e)
    \/ \E p \in PollIDs, v \in VoterIDs, c \in Choices : CastVote(p, v, c)
    \/ MinePendingVotesManually
    \/ DBSyncTick

\* the ticker of startDBSync keeps firing
SpecSync == Init /\ [][NextSync]_vars /\ WF_vars(DBSyncTick)

\* the mirror followed for one voter of named multi-vote polls: the same
\* ticks, with the same refused writes, over a ledger that grows by one
\* voter's registration, polls, ballots and blocks
NextMirror ==
    \/ Tick
    \/ RegisterVoter("v1")
    \/ \E h \in DurationHours, e \in EligibleInputs : CreatePoll(FALSE, TRUE, h, e)
    \/ \E p \in PollIDs : CastVote(p, "v1", Options[1])
    \/ MinePendingVotesManually
    \/ DBSyncTick

SpecMirror == Init /\ [][NextMirror]_vars

\* the process stops and starts again: NewBlockchain, then LoadBlockchain
\* fills the registry and the polls from the voters and polls tables; the
\* chain, the pending buffer and the participation records start empty and a
\* new startDBSync starts with fresh locals.  Poll ids are positions here,
\* so a restart is taken once every poll is mirrored.
Restart ==
    /\ db.restarts < MaxRestarts
    /\ DOMAIN db.polls = DOMAIN Polls
    /\ Chain' = <<createGenesisBlock(now)>>
    /\ PendingVotes' = <<>>
    /\ VoterRegistry' = db.voters
    /\ Polls' = [p \in DOMAIN Polls |-> db.polls[p]]
    /\ VoteRecords' = [p \in DOMAIN Polls |-> <<>>]
    /\ sync' = NewSync
    /\ db' = [db EXCEPT !.restarts = @ + 1]
    /\ UNCHANGED <<now, accepted, limiter, gate, mu, redis, refresh, sanitize,
                   rw, mineReq>>

\* the voters table as init-db.sql leaves it: the script ends with an INSERT
\* of sample voters; the address of the first one (john.doe@example.com) is
\* one of the addresses that register here
SampleVoters ==
    [v \in {"test_voter_1"} |->
        [VoterID |-> v, Email |-> "e1",
         PublicKey |-> <<"public", "sample_public_key_1">>,
         RegisteredAt |-> 0]]

\* the process is constructed over the store of a new deployment
InitDeployed ==
    /\ Chain = <<createGenesisBlock(0)>>
    /\ PendingVotes = <<>>
    /\ Polls = <<>>
    /\ VoterRegistry = [v \in {} |-> 0]
    /\ VoteRecords = <<>>
    /\ now = 0
    /\ accepted = <<>>
    /\ limiter = NewRateLimiter
    /\ gate = NewGate
    /\ sync = NewSync
    /\ db = [NewDB EXCEPT !.voters = SampleVoters]
    /\ mu = NewMutex
    /\ redis = NewRedis
    /\ refresh = NewRefresh
    /\ sanitize = NewText
    /\ rw = NewRWMutex
    /\ mineReq = NewMineRequest

\* the startup rehydration from that store, then the voting state machine
NextLoad ==
    \/ Restart
    \/ Tick
    \/ \E v \in VoterIDs : RegisterVoter(v)
    \/ \E anon, multi \in BOOLEAN, h \in DurationHours, e \in EligibleInputs :
          CreatePoll(anon, multi, h, e)
    \/ \E p \in PollIDs, v \in VoterIDs, c \in Choices : CastVote(p, v, c)
    \/ MinePendingVotesManually

SpecLoad == InitDeployed /\ [][NextLoad]_vars

\* a tick in which the store accepts every write
DBSyncAccepted ==
    DBSync([blocks |-> {}, voters |-> {}, polls |-> {}, votes |-> {}])

\* voters register and polls are created before the restart
NextRestart ==
    \/ Tick
    \/ db.restarts = 0 /\ \E v \in VoterIDs : RegisterVoter(v)
    \/ db.restarts = 0 /\ \E anon, multi \in BOOLEAN, h \in DurationHours,
                             e \in EligibleInputs : CreatePoll(anon, multi, h, e)
    \/ \E p \in PollIDs, v \in VoterIDs, c \in Choices : CastVote(p, v, c)
    \/ MinePendingVotesManually
    \/ DBSyncAccepted
    \/ Restart

SpecRestart == Init /\ [][NextRestart]_vars

(***************************************************************************)
(* bc.mu.  An operation on the voting state takes the lock its code takes, *)
(* touches the state and releases the lock.                                *)
(***************************************************************************)
\* the methods of Blockchain that take bc.mu.Lock()
LockedWrites ==
    {"RegisterVoter", "CreatePoll", "CastVote", "MinePendingVotesManually"}

\* the methods of Blockchain that take bc.mu.RLock()
LockedReads ==
    {"GetLatestBlock", "GetPollResults", "VerifyChain", "GetVoterHistory",
     "GetStats", "ExportChain"}

\* code outside the package that reads the fields of the Blockchain itself
DirectReads ==
    {"GetPolls", "GetPollDetails", "VoterLogin", "startRedisSync",
     "startDBSync"}

\* code outside the package that writes the fields of the Blockchain itself
DirectWrites == {"LoadBlockchain"}

Operations == LockedWrites \cup LockedReads \cup DirectReads \cup DirectWrites

\* the lock an operation takes: "Lock", "RLock" or none
LockMode(op) ==
    IF op \in LockedWrites THEN "Lock"
    ELSE IF op \in LockedReads THEN "RLock"
    ELSE "none"

\* what an operation does to the voting state
Access(op) ==
    IF op \in LockedWrites \cup DirectWrites THEN "write" ELSE "read"

ledgerVars ==
    <<Chain, PendingVotes, Polls, VoterRegistry, VoteRecords, now, accepted>>

\* a task enters an operation: Lock waits for the lock to be free, RLock for
\* no writer, the others wait for nothing
Enter(t, op) ==
    /\ mu.running[t] = "idle"
    /\ LockMode(op) = "Lock" => mu.writer = "" /\ mu.readers = {}
    /\ LockMode(op) = "RLock" => mu.writer = ""
    /\ mu' = [writer |-> IF LockMode(op) = "Lock" THEN t ELSE mu.writer,
              readers |-> IF LockMode(op) = "RLock"
                          THEN mu.readers \cup {t} ELSE mu.readers,
              running |-> [mu.running EXCEPT ![t] = op]]
    /\ UNCHANGED <<ledgerVars, limiter, gate, sync, db, redis, refresh, sanitize,
                   rw, mineReq>>

\* the operation returns (defer Unlock / RUnlock)
Leave(t) ==
    /\ mu.running[t] # "idle"
    /\ mu' = [writer |-> IF mu.writer = t THEN "" ELSE mu.writer,
              readers |-> mu.readers \ {t},
              running |-> [mu.running EXCEPT ![t] = "idle"]]
    /\ UNCHANGED <<ledgerVars, limiter, gate, sync, db, redis, refresh, sanitize,
                   rw, mineReq>>

NextLock ==
    \/ \E t \in TaskIDs, op \in Operations : Enter(t, op)
    \/ \E t \in TaskIDs : Leave(t)

SpecLock == Init /\ [][NextLock]_vars

(***************************************************************************)
(* The manual mine request (Handler.MinePendingVotes).  The handler calls  *)
(* MinePendingVotesManually, which returns with bc.mu released, and reads  *)
(* len(h.blockchain.Chain) for its reply afterwards; the other requests    *)
(* run in between.                                                         *)
(***************************************************************************)
\* votesCount := h.blockchain.MinePendingVotesManually(), with ballots
\* pending; mined is the index of the block the call appended
MinePendingVotesCall ==
    LET r == MinePendingVotesManuallyResult
    IN  /\ mineReq.pc # "reply"
        /\ r.ret > 0
        /\ Len(r.Chain) <= MaxChain
        /\ Chain' = r.Chain
        /\ PendingVotes' = r.PendingVotes
        /\ mineReq' = [pc |-> "reply", votes_mined |-> r.ret,
                       mined |-> Len(r.Chain) - 1, new_block_index |-> 0]
        /\ UNCHANGED <<Polls, VoterRegistry, VoteRecords, now, accepted,
                       limiter, gate, sync, db, mu, redis, refresh, sanitize,
                       rw>>

\* the reply: "new_block_index": len(h.blockchain.Chain) - 1
MinePendingVotesReply ==
    /\ mineReq.pc = "reply"
    /\ mineReq' = [mineReq EXCEPT !.pc = "sent",
                                  !.new_block_index = Len(Chain) - 1]
    /\ UNCHANGED <<Chain, PendingVotes, Polls, VoterRegistry, VoteRecords,
                   now, accepted, limiter, gate, sync, db, mu, redis,
                   refresh, sanitize, rw>>

\* a registration served between the call and the reply of the mine
\* request; the exploration leaves room for its block above MaxChain
RegisterVoterMeanwhile(voterID) ==
    LET r == RegisterVoterResult(voterID)
    IN  /\ mineReq.pc = "reply"
        /\ r.err = NoErr
        /\ Len(Chain) <= MaxChain
        /\ VoterRegistry' = r.VoterRegistry
        /\ Chain' = r.Chain
        /\ UNCHANGED <<PendingVotes, Polls, VoteRecords, now, accepted>>
        /\ UNCHANGED outerVars

NextMine ==
    \/ Tick
    \/ \E v \in VoterIDs : RegisterVoter(v)
    \/ \E anon, multi \in BOOLEAN, h \in DurationHours, e \in EligibleInputs :
          CreatePoll(anon, multi, h, e)
    \/ \E p \in PollIDs, v \in VoterIDs, c \in Choices : CastVote(p, v, c)
    \/ MinePendingVotesCall
    \/ \E v \in VoterIDs : RegisterVoterMeanwhile(v)
    \/ MinePendingVotesReply

SpecMine == Init /\ [][NextMine]_vars

(***************************************************************************)
(* bc.mu as the sync.RWMutex it is: a Lock call that waits for the readers *)
(* to leave holds back every later RLock call, and a read lock is counted  *)
(* per call, not per task.  GetStats calls VerifyChain with its own read   *)
(* lock held.                                                              *)
(***************************************************************************)
\* RLock returns when no writer holds the lock and none waits for it
CanRLock == rw.writer = "" /\ rw.pending = {}

rwFrame ==
    <<Chain, PendingVotes, Polls, VoterRegistry, VoteRecords, now, accepted,
      limiter, gate, sync, db, mu, redis, refresh, sanitize, mineReq>>

\* bc.mu.RLock() at the head of a reading method
RLock(t, op) ==
    /\ rw.pc[t] = "idle"
    /\ CanRLock
    /\ rw' = [rw EXCEPT !.readers = @ + 1, !.pc[t] = "body", !.op[t] = op]
    /\ UNCHANGED rwFrame

\* GetStats reaches BlockchainValid: bc.VerifyChain() takes bc.mu.RLock()
CallVerifyChain(t) ==
    /\ rw.pc[t] = "body"
    /\ rw.op[t] = "GetStats"
    /\ CanRLock
    /\ rw' = [rw EXCEPT !.readers = @ + 1, !.pc[t] = "VerifyChain"]
    /\ UNCHANGED rwFrame

\* VerifyChain returns to GetStats (defer RUnlock)
ReturnVerifyChain(t) ==
    /\ rw.pc[t] = "VerifyChain"
    /\ rw' = [rw EXCEPT !.readers = @ - 1, !.pc[t] = "return"]
    /\ UNCHANGED rwFrame

\* a reading method returns (defer RUnlock)
RUnlock(t) ==
    /\ \/ rw.pc[t] = "body" /\ rw.op[t] \in LockedReads \ {"GetStats"}
       \/ rw.pc[t] = "return"
    /\ rw' = [rw EXCEPT !.readers = @ - 1, !.pc[t] = "idle", !.op[t] = ""]
    /\ UNCHANGED rwFrame

\* bc.mu.Lock() is called: from now on the writer is waited for
Lock(t, op) ==
    /\ rw.pc[t] = "idle"
    /\ rw' = [rw EXCEPT !.pending = @ \cup {t}, !.pc[t] = "Lock",
                        !.op[t] = op]
    /\ UNCHANGED rwFrame

\* bc.mu.Lock() returns once the readers have left and no writer holds it
LockAcquired(t) ==
    /\ t \in rw.pending
    /\ rw.readers = 0
    /\ rw.writer = ""
    /\ rw' = [rw EXCEPT !.pending = @ \ {t}, !.writer = t,
                        !.pc[t] = "body"]
    /\ UNCHANGED rwFrame

\* a writing method returns (defer Unlock)
Unlock(t) ==
    /\ rw.writer = t
    /\ rw' = [rw EXCEPT !.writer = "", !.pc[t] = "idle", !.op[t] = ""]
    /\ UNCHANGED rwFrame

\* the steps of one task
TaskStep(t) ==
    \/ \E op \in LockedReads : RLock(t, op)
    \/ CallVerifyChain(t)
    \/ ReturnVerifyChain(t)
    \/ RUnlock(t)
    \/ \E op \in LockedWrites : Lock(t, op)
    \/ LockAcquired(t)
    \/ Unlock(t)

NextRWMutex ==
    \/ \E t \in TaskIDs, op \in LockedReads : RLock(t, op)
    \/ \E t \in TaskIDs : CallVerifyChain(t)
    \/ \E t \in TaskIDs : ReturnVerifyChain(t)
    \/ \E t \in TaskIDs : RUnlock(t)
    \/ \E t \in TaskIDs, op \in LockedWrites : Lock(t, op)
    \/ \E t \in TaskIDs : LockAcquired(t)
    \/ \E t \in TaskIDs : Unlock(t)

\* every goroutine that can take a step is scheduled
SpecRWMutex ==
    Init /\ [][NextRWMutex]_vars /\ \A t \in TaskIDs : WF_vars(TaskStep(t))

(***************************************************************************)
(* Cache mirror (Manager.startRedisSync).  A tick marshals and writes the  *)
(* chain, then the polls, then the voters; it takes no lock, so the voting *)
(* state machine runs between the three.                                   *)
(***************************************************************************)
RedisChain ==
    /\ redis.pc = "chain"
    /\ redis.ticks < MaxSnapshots
    /\ redis' = [redis EXCEPT !.chain = Chain, !.pc = "polls"]
    /\ UNCHANGED <<ledgerVars, limiter, gate, sync, db, mu, refresh, sanitize,
                   rw, mineReq>>

RedisPolls ==
    /\ redis.pc = "polls"
    /\ redis' = [redis EXCEPT !.polls = Polls, !.pc = "voters"]
    /\ UNCHANGED <<ledgerVars, limiter, gate, sync, db, mu, refresh, sanitize,
                   rw, mineReq>>

RedisVoters ==
    /\ redis.pc = "voters"
    /\ redis' = [redis EXCEPT !.voters = VoterRegistry, !.pc = "chain",
                              !.ticks = @ + 1]
    /\ UNCHANGED <<ledgerVars, limiter, gate, sync, db, mu, refresh, sanitize,
                   rw, mineReq>>

NextRedis ==
    \/ Tick
    \/ \E v \in VoterIDs : RegisterVoter(v)
    \/ \E anon, multi \in BOOLEAN, h \in DurationHours, e \in EligibleInputs :
          CreatePoll(anon, multi, h, e)
    \/ \E p \in PollIDs, v \in VoterIDs, c \in Choices : CastVote(p, v, c)
    \/ MinePendingVotesManually
    \/ RedisChain
    \/ RedisPolls
    \/ RedisVoters

SpecRedis == Init /\ [][NextRedis]_vars

(***************************************************************************)
(* Input sanitiser (validation.Validator).  A string is the sequence of    *)
(* its runes.                                                              *)
(***************************************************************************)
\* NUL, BEL, tab, newline, carriage return, space, the letter a and DEL
Runes == {0, 7, 9, 10, 13, 32, 97, 127}

\* unicode.IsSpace on the runes below U+0100
IsSpace(r) == r \in {9, 10, 11, 12, 13, 32, 133, 160}

RECURSIVE TrimLeft(_)
TrimLeft(str) ==
    IF str # <<>> /\ IsSpace(Head(str)) THEN TrimLeft(Tail(str)) ELSE str

RECURSIVE TrimRight(_)
TrimRight(str) ==
    IF str # <<>> /\ IsSpace(str[Len(str)])
    THEN TrimRight(SubSeq(str, 1, Len(str) - 1))
    ELSE str

\* strings.TrimSpace
TrimSpace(str) == TrimRight(TrimLeft(str))

\* strings.ReplaceAll(input, "\x00", "")
RemoveNulls(str) == SelectSeq(str, LAMBDA r : r # 0)

\* the loop that keeps newline, tab and the runes from 32 up except DEL
KeepPrintable(str) ==
    SelectSeq(str, LAMBDA r : r = 10 \/ r = 9 \/ (r >= 32 /\ r # 127))

\* SanitizeString: trim, then drop the NULs, then drop the controls
SanitizeString(input) == KeepPrintable(RemoveNulls(TrimSpace(input)))

\* the strings of up to MaxLen runes
Strings == UNION {[1..n -> Runes] : n \in 0..MaxLen}

\* one call of SanitizeString, and a second call on what it returned
SanitizeCall(input) ==
    /\ sanitize.calls = 0
    /\ sanitize' = [calls |-> 1, input |-> input,
                    output |-> SanitizeString(input),
                    again |-> SanitizeString(SanitizeString(input))]
    /\ UNCHANGED <<Chain, PendingVotes, Polls, VoterRegistry, VoteRecords,
                   now, accepted, limiter, gate, sync, db, mu, redis,
                   refresh, rw, mineReq>>

NextText == \E input \in Strings : SanitizeCall(input)

SpecText == Init /\ [][NextText]_vars

(***************************************************************************)
(* Derived views of the state used by the properties.                      *)
(***************************************************************************)
RECURSIVE minedVotes(_, _)
minedVotes(chain, i) ==
    IF i > Len(chain) THEN <<>>
    ELSE (IF chain[i].Data.type = "votes" THEN chain[i].Data.votes ELSE <<>>)
         \o minedVotes(chain, i + 1)

\* every stored ballot: the ballots of the votes blocks, then the pending ones
StoredBallots == minedVotes(Chain, 1) \o PendingVotes

VotesBlocks == {i \in DOMAIN Chain : Chain[i].Data.type = "votes"}

AcceptedIn(p) == {i \in DOMAIN accepted : accepted[i].PollID = p}

RECURSIVE SumOver(_, _)
SumOver(f, S) ==
    IF S = {} THEN 0
    ELSE LET k == CHOOSE x \in S : TRUE IN f[k] + SumOver(f, S \ {k})

\* the chain grew by exactly one block and kept every earlier block
AppendedOne == /\ Len(Chain') = Len(Chain) + 1
               /\ SubSeq(Chain', 1, Len(Chain)) = Chain

(***************************************************************************)
(* Properties.                                                             *)
(***************************************************************************)
\* C1: in a poll with allow_multiple_votes=false, anonymous or not, each
\* voter has at most one successful CastVote, every later cast by a voter who
\* already voted is rejected (with the double-vote error while the poll is
\* active), and no id appears twice in the poll's participation record.
C1_OneVotePerPoll ==
    \A p \in DOMAIN Polls :
        ~Polls[p].AllowMultipleVotes =>
            /\ \A i, j \in AcceptedIn(p) :
                  accepted[i].VoterID = accepted[j].VoterID => i = j
            /\ \A i \in AcceptedIn(p) : \A c \in Choices :
                  LET err == CastVoteError(p, accepted[i].VoterID, c)
                  IN  /\ err # NoErr
                      /\ IsActive(Polls[p]) => err = ErrDoubleVote
            /\ \A i, j \in DOMAIN VoteRecords[p] :
                  VoteRecords[p][i] = VoteRecords[p][j] => i = j

\* C2: after a successful CastVote by v in an anonymous poll the stored ballot
\* carries "anonymous", the participation record of the poll contains v, and
\* a second cast by v (allow_multiple_votes=false) is rejected.
C2_AnonymousKeepsVoter ==
    \A i \in DOMAIN accepted :
        LET p == accepted[i].PollID
            v == accepted[i].VoterID
        IN  Polls[p].IsAnonymous =>
              /\ StoredBallots[i].VoteID = accepted[i].VoteID
              /\ StoredBallots[i].VoterID = Anonymous
              /\ v \in Range(VoteRecords[p])
              /\ ~Polls[p].AllowMultipleVotes =>
                    \A c \in Choices : CastVoteError(p, v, c) # NoErr

\* C3: in every reachable state VerifyChain returns true: every block after
\* the genesis links to the hash of its predecessor, and every block's stored
\* hash is the hash of its fields and meets the difficulty prefix.
C3_ChainVerifies ==
    /\ VerifyChain
    /\ \A i \in DOMAIN Chain :
          /\ Chain[i].Hash = calculateHash(Chain[i])
          /\ HasPrefix(Chain[i].Hash)
          /\ i > 1 => Chain[i].PreviousHash = Chain[i - 1].Hash

\* a chain holding a registration, a poll and a votes block, one with nonce > 0
C3_Witness ==
    /\ VotesBlocks # {}
    /\ \E i \in DOMAIN Chain : Chain[i].Data.type = "voter_registration"
    /\ \E i \in DOMAIN Chain : Chain[i].Data.type = "poll_creation"
    /\ \E i \in DOMAIN Chain : Chain[i].Nonce > 0

\* C4: every accepted ballot is counted exactly once under its choice by
\* GetPollResults of its poll, while pending and after it has been mined: the
\* ballot is stored once, and the counters of a poll are the numbers of
\* ballots accepted for it, per choice and in total.
C4_TallyCountsOnce ==
    /\ \A i \in DOMAIN accepted :
          Cardinality({j \in DOMAIN StoredBallots :
                          StoredBallots[j].VoteID = accepted[i].VoteID}) = 1
    /\ \A p \in DOMAIN Polls :
          LET r == GetPollResults(p)
          IN  /\ r.err = NoErr
              /\ r.TotalVotes = Cardinality(AcceptedIn(p))
              /\ \A o \in DOMAIN r.Results :
                    r.Results[o] = Cardinality({i \in AcceptedIn(p) :
                                                   accepted[i].Choice = o})

\* a poll with one ballot mined into a block and another one still pending
C4_Witness ==
    \E p \in DOMAIN Polls :
        /\ \E j \in DOMAIN PendingVotes : PendingVotes[j].PollID = p
        /\ \E b \in VotesBlocks : \E j \in DOMAIN Chain[b].Data.votes :
              Chain[b].Data.votes[j].PollID = p
        /\ GetPollResults(p).TotalVotes = 2

\* the chain only ever grows by one block at its end
ChainStep == Chain' = Chain \/ AppendedOne

\* C5: the chain starts with the genesis block (index 0, previous hash "0"),
\* chain[i].index = i for every block, and every operation leaves the chain
\* unchanged or appends exactly one block, never touching an earlier one.
C5_AppendOnly ==
    /\ [](/\ Len(Chain) >= 1
          /\ Chain[1].Index = 0
          /\ Chain[1].PreviousHash = "0"
          /\ Chain[1].Data.type = "genesis"
          /\ \A i \in DOMAIN Chain : Chain[i].Index = i - 1)
    /\ [][ChainStep]_vars

\* the chain has grown to its bound
C5_Witness == Len(Chain) = MaxChain /\ VotesBlocks # {}

\* C6: for every poll the per-option counters returned by GetPollResults sum
\* up to total_votes.
C6_CountersSumToTotal ==
    \A p \in DOMAIN Polls :
        LET r == GetPollResults(p)
        IN  SumOver(r.Results, DOMAIN r.Results) = r.TotalVotes

\* a second poll exists and a poll has ballots for both of its options
C6_Witness ==
    /\ Len(Polls) = 2
    /\ \E p \in DOMAIN Polls :
          LET r == GetPollResults(p)
          IN  r.Results[Options[1]] >= 1 /\ r.Results[Options[2]] >= 1

\* the checks of a cast request that are violated in the current state,
\* numbered in the documented order; checks 2, 4, 5 and 6 are about the poll
\* and cannot be violated by a request whose poll does not exist
ViolatedChecks(pollID, voterID, choice) ==
    LET known == pollID \in DOMAIN Polls
    IN  {k \in 1..6 :
            \/ k = 1 /\ ~known
            \/ k = 2 /\ known /\ ~IsActive(Polls[pollID])
            \/ k = 3 /\ voterID \notin DOMAIN VoterRegistry
            \/ k = 4 /\ known
                     /\ \A i \in DOMAIN Polls[pollID].EligibleVoters :
                           Polls[pollID].EligibleVoters[i] # voterID
            \/ k = 5 /\ known /\ ~Polls[pollID].AllowMultipleVotes
                     /\ \E i \in DOMAIN VoteRecords[pollID] :
                           VoteRecords[pollID][i] = voterID
            \/ k = 6 /\ known
                     /\ \A i \in DOMAIN Polls[pollID].Options :
                           Polls[pollID].Options[i] # choice}

CheckErrors ==
    <<ErrPollMissing, ErrPollInactive, ErrNotRegistered, ErrNotEligible,
      ErrDoubleVote, ErrInvalidChoice>>

\* C7: CastVote reports the error of the earliest violated check in the
\* order poll exists, poll active, voter registered, voter eligible, not
\* already voted, choice valid, and the six errors are pairwise distinct.
C7_FirstViolatedCheck ==
    /\ \A i, j \in DOMAIN CheckErrors :
          CheckErrors[i] = CheckErrors[j] => i = j
    /\ \A p \in PollIDs, v \in VoterIDs, c \in Choices :
          LET bad == ViolatedChecks(p, v, c)
              err == CastVoteError(p, v, c)
          IN  IF bad = {} THEN err = NoErr
              ELSE err = CheckErrors[CHOOSE k \in bad : \A m \in bad : k <= m]

\* requests violating three checks, the earliest of them neither the first
\* nor the last of the list, next to a request violating only the fifth
C7_Witness ==
    /\ \E p \in PollIDs, v \in VoterIDs, c \in Choices :
          ViolatedChecks(p, v, c) = {3, 4, 6}
    /\ \E p \in PollIDs, v \in VoterIDs, c \in Choices :
          ViolatedChecks(p, v, c) = {5}

\* a step that adds a voter adds one voter and one voter_registration block
\* carrying the id of that voter
RegisterStep ==
    DOMAIN VoterRegistry' # DOMAIN VoterRegistry =>
        \E v \in VoterIDs \ DOMAIN VoterRegistry :
            /\ DOMAIN VoterRegistry' = DOMAIN VoterRegistry \cup {v}
            /\ \A w \in DOMAIN VoterRegistry :
                  VoterRegistry'[w] = VoterRegistry[w]
            /\ VoterRegistry'[v].VoterID = v
            /\ AppendedOne
            /\ Chain'[Len(Chain')].Data.type = "voter_registration"
            /\ Chain'[Len(Chain')].Data.voter_id = v
            /\ UNCHANGED <<PendingVotes, Polls, VoteRecords>>

\* C8: RegisterVoter of a registered voter id fails with the
\* already-registered error and changes neither registry nor chain;
\* RegisterVoter of an unknown id inserts exactly that voter and appends
\* exactly one voter_registration block carrying that voter id.
C8_RegisterVoter ==
    /\ [](\A v \in VoterIDs :
            LET r == RegisterVoterResult(v)
            IN  IF v \in DOMAIN VoterRegistry
                THEN /\ r.err = ErrAlreadyRegistered
                     /\ r.VoterRegistry = VoterRegistry
                     /\ r.Chain = Chain
                ELSE /\ r.err = NoErr
                     /\ DOMAIN r.VoterRegistry = DOMAIN VoterRegistry \cup {v}
                     /\ Len(r.Chain) = Len(Chain) + 1
                     /\ r.Chain[Len(r.Chain)].Data.voter_id = v)
    /\ [][RegisterStep]_vars

\* one voter is registered, with its block in the chain, and the other is not
C8_Witness ==
    /\ Cardinality(DOMAIN VoterRegistry) = 1
    /\ \E i \in DOMAIN Chain :
          /\ Chain[i].Data.type = "voter_registration"
          /\ Chain[i].Data.voter_id \in DOMAIN VoterRegistry
    /\ Len(Chain) > 2

\* a successful cast that fills the buffer up to the threshold mines it
ThresholdStep ==
    (accepted' # accepted /\ Len(PendingVotes) + 1 >= MiningThreshold) =>
        /\ PendingVotes' = <<>>
        /\ AppendedOne
        /\ Chain'[Len(Chain')].Data.type = "votes"
        /\ Chain'[Len(Chain')].Data.count = Len(PendingVotes) + 1
        /\ SubSeq(Chain'[Len(Chain')].Data.votes, 1, Len(PendingVotes))
              = PendingVotes
        /\ Chain'[Len(Chain')].Data.votes[Len(PendingVotes) + 1].VoteID
              = accepted'[Len(accepted')].VoteID

\* C9: a successful CastVote that brings the pending buffer to the mining
\* threshold flushes the whole buffer into exactly one new votes block and
\* leaves the buffer empty, so the buffer always holds fewer than
\* mining_threshold ballots between operations.
C9_ThresholdFlush ==
    /\ [](Len(PendingVotes) < MiningThreshold)
    /\ [][ThresholdStep]_vars

\* the fifth cast has just flushed five ballots into a block
C9_Witness ==
    /\ PendingVotes = <<>>
    /\ Chain[Len(Chain)].Data.type = "votes"
    /\ Chain[Len(Chain)].Data.count = MiningThreshold

\* a step that empties the buffer without accepting a ballot appends one
\* votes block with exactly the ballots of the buffer, in buffer order
ManualFlushStep ==
    (PendingVotes' # PendingVotes /\ accepted' = accepted) =>
        /\ PendingVotes' = <<>>
        /\ AppendedOne
        /\ Chain'[Len(Chain')].Data.type = "votes"
        /\ Chain'[Len(Chain')].Data.votes = PendingVotes
        /\ Chain'[Len(Chain')].Data.count = Len(PendingVotes)
        /\ UNCHANGED <<Polls, VoterRegistry, VoteRecords>>

\* C10: a manual flush of an empty buffer returns 0 and changes nothing; a
\* manual flush of n > 0 pending ballots returns n, appends exactly one votes
\* block with exactly those ballots in buffer order, and empties the buffer.
C10_ManualFlush ==
    /\ [](LET r == MinePendingVotesManuallyResult
          IN  /\ r.ret = Len(PendingVotes)
              /\ Len(PendingVotes) = 0 =>
                    r.Chain = Chain /\ r.PendingVotes = PendingVotes
              /\ Len(PendingVotes) > 0 =>
                    /\ r.PendingVotes = <<>>
                    /\ Len(r.Chain) = Len(Chain) + 1
                    /\ r.Chain[Len(r.Chain)].Data.votes = PendingVotes)
    /\ [][ManualFlushStep]_vars

\* a manual flush has mined two pending ballots and the buffer is empty again
C10_Witness ==
    /\ PendingVotes = <<>>
    /\ \E b \in VotesBlocks : Chain[b].Data.count = 2

\* C11: for every client key the rate limiter lets through at most
\* StrictRate requests with times in any window of length WindowTicks, and
\* a request that arrives when the window already holds StrictRate allowed
\* requests of its client is refused (HTTP 429).
C11_SlidingWindow ==
    /\ \A c \in ClientIDs : Len(limiter.allowed[c]) <= StrictRate
    /\ \A g \in CallIDs :
          limiter.calls[g].pc = "record" =>
              LET call == limiter.calls[g]
              IN  Len(limiter.allowed[call.clientID]) >= StrictRate =>
                    ~AllowResult(limiter.objects[call.client],
                                 StrictRate).allowed

\* the request carries a bearer token that the server issued and that has
\* not expired
HasValidToken(header) ==
    /\ header.kind = "bearer"
    /\ header.token.secret = JWTSecret
    /\ now < header.token.ExpiresAt

AdminRoutes == {"polls", "mine"}

C13_OwnSubjectOnly ==
    \A route \in {"vote", "history"}, clientIP \in ClientIDs :
        \A header \in HeaderInputs, body \in Bodies(route) :
            /\ HasValidToken(header)
            /\ header.token.Role = "voter"
            /\ header.token.VoterID # body.voter_id
            => \E r \in {ServeHTTP(route, clientIP, header, body, <<>>)} :
                  r.status # 200 /\ r.ledger = Ledger

\* the signatures a ballot of voter v can carry: the voter's own, the same
\* ballot signed with another key, and strings that no key produced
SignatureInputs(p, v, c) ==
    {SignVote(p, v, c), RawSignature("test_signature"), RawSignature("")}
        \cup {SignData(VoteData(p, v, c), GenerateKeyPair(o).privateKeyPEM) :
                 o \in (VoterIDs \cup {"x"}) \ {v}}

\* C14: a CastVote whose signature does not verify under the registered
\* public key of the voter is rejected, with the invalid-signature error
\* when every other check passes, and adds neither a pending ballot nor a
\* participation record.
C14_SignatureVerified ==
    \A p \in PollIDs, v \in DOMAIN VoterRegistry, c \in Choices :
        \A sig \in SignatureInputs(p, v, c) :
            ~VerifySignature(VoteData(p, v, c), sig, VoterRegistry[v].PublicKey)
            => \E r \in {CastVoteResult(p, v, c, sig)} :
                  /\ r.err # NoErr
                  /\ CastVoteError(p, v, c) = NoErr
                        => r.err = ErrInvalidSignature
                  /\ r.PendingVotes = PendingVotes
                  /\ r.VoteRecords = VoteRecords

MutatingRoutes == {"register", "vote", "polls", "mine"}

\* the place of a stage in the order rate limit, authentication, role,
\* validation, state machine
StageRank(stage) ==
    CASE stage = "rate" -> 1
      [] stage = "auth" -> 2
      [] stage = "role" -> 3
      [] stage = "validate" -> 4
      [] stage = "machine" -> 5

\* the limiter of the route holds a full window of requests of the client
OverLimit(route, clientIP) ==
    \E i \in DOMAIN RouteChain(route) :
        LET mw == RouteChain(route)[i]
            key == <<mw.arg, clientIP>>
        IN  /\ mw.mw = "rate"
            /\ key \in DOMAIN gate.requests
            /\ Len(validRequests(gate.requests[key], now - WindowTicks))
                  >= TierRate(mw.arg)

\* C15: every mutating request passes the stages in the order rate limit,
\* authentication, role check, validation, state machine, starting with the
\* rate limit; a client over its limit is answered 429 before its token is
\* looked at; and a request that is not answered 200 leaves the voting
\* state as it was.
C15_StageOrder ==
    \A route \in MutatingRoutes, clientIP \in ClientIDs :
        \A header \in HeaderInputs, body \in Bodies(route),
           snapshot \in Snapshots(route) :
            \E r \in {ServeHTTP(route, clientIP, header, body, snapshot)} :
                /\ r.stages[1] = "rate"
                /\ \A i, j \in DOMAIN r.stages :
                      i < j => StageRank(r.stages[i]) < StageRank(r.stages[j])
                /\ OverLimit(route, clientIP)
                      => r.status = 429 /\ r.stages = <<"rate">>
                /\ r.status # 200 => r.ledger = Ledger

\* the presented key is the private half of the pair whose public half the
\* registry holds for the voter
HoldsKeyOf(voterID, privateKeyPEM) ==
    /\ voterID \in DOMAIN VoterRegistry
    /\ \E o \in VoterIDs \cup {"x"} :
          GenerateKeyPair(o) = [privateKeyPEM |-> privateKeyPEM,
                                publicKeyPEM |-> VoterRegistry[voterID].PublicKey]

\* C18: a voter login with a registered voter id and the matching private
\* key is answered 200 with a valid token of role voter whose voter_id claim
\* is that id; with an unknown voter id or another key it is answered 401
\* without a token; through the router a token is issued to nobody else, and
\* a login never changes the voting state.
C18_VoterLogin ==
    \A body \in Bodies("voter-login") :
        /\ ~body.malformed =>
              \E r \in {VoterLogin(body)} :
                  IF HoldsKeyOf(body.voter_id, body.private_key)
                  THEN /\ r.status = 200
                       /\ ValidateToken(r.token)
                       /\ r.token.Role = "voter"
                       /\ r.token.VoterID = body.voter_id
                  ELSE r.status = 401 /\ r.token = NoToken
        /\ \A clientIP \in ClientIDs :
              \E r \in {ServeHTTP("voter-login", clientIP,
                                  [kind |-> "none", token |-> NoToken],
                                  body, <<>>)} :
                  /\ r.token # NoToken
                        => /\ ~body.malformed
                           /\ HoldsKeyOf(body.voter_id, body.private_key)
                  /\ r.ledger = Ledger

\* a registered voter logs in with the own key and is refused with the key
\* of another registered voter
C18_Witness ==
    \E v, w \in DOMAIN VoterRegistry :
        /\ v # w
        /\ VoterLogin([voter_id |-> v,
                       private_key |-> GenerateKeyPair(v).privateKeyPEM,
                       malformed |-> FALSE]).status = 200
        /\ VoterLogin([voter_id |-> v,
                       private_key |-> GenerateKeyPair(w).privateKeyPEM,
                       malformed |-> FALSE]).status = 401

\* C16: with a store that refuses at most MaxFaults writes and a sync ticker
\* that keeps firing, every block of the in-memory chain is eventually, and
\* from then on, a row of the blocks table.
C16_EveryBlockPersisted ==
    <>[](\A i \in DOMAIN Chain :
            /\ Chain[i].Index \in DOMAIN db.blocks
            /\ db.blocks[Chain[i].Index] = Chain[i])

\* C17: a voter whose ballot was accepted in a poll with
\* allow_multiple_votes=false is rejected by every later CastVote in that
\* poll, also after a restart with rehydration from the mirrored voters and
\* polls.  The formula is about the polls that are not anonymous.
C17_OneVoteAcrossRestart ==
    \A i \in DOMAIN accepted :
        LET p == accepted[i].PollID
            v == accepted[i].VoterID
        IN  ~Polls[p].AllowMultipleVotes /\ ~Polls[p].IsAnonymous
            => \A c \in Choices : CastVoteError(p, v, c) # NoErr

\* the voters whose ballots the poll has accepted
Voted(pollID) ==
    {accepted[i].VoterID : i \in {j \in DOMAIN accepted :
                                     accepted[j].PollID = pollID}}

\* C19: the voter turnout of GetPollResults is the number of distinct voters
\* who voted in the poll over the number of eligible voters ("N/A" without
\* eligible voters), in every poll; it never exceeds 100% and is 100%
\* exactly when every eligible voter has voted.  The formula is about the
\* polls that are not anonymous.
C19_Turnout ==
    \A p \in {q \in DOMAIN Polls : ~Polls[q].IsAnonymous} :
        LET t == GetPollResults(p).VoterTurnout
            eligible == Polls[p].EligibleVoters
            n == Cardinality(Voted(p))
            d == Len(eligible)
        IN  IF d = 0 THEN t = "N/A"
            ELSE /\ t = (2 * 1000 * n + d) \div (2 * d)
                 /\ t <= 1000
                 /\ t = 1000 <=> Range(eligible) \subseteq Voted(p)

\* C20: CreatePoll with an empty eligible list sets the list to exactly the
\* voters registered at that moment and starts the poll's participation
\* record empty; no step changes the eligible list of a poll; a voter who is
\* not on the list is rejected by CastVote (as not eligible once the poll is
\* active and the voter registered), so a poll created while nobody is
\* registered never receives a ballot.
C20_EligibleSnapshot ==
    [][/\ Len(Polls') > Len(Polls) =>
            LET q == Len(Polls')
            IN  /\ q = Len(Polls) + 1
                /\ Range(Polls'[q].EligibleVoters) = DOMAIN VoterRegistry
                /\ Len(Polls'[q].EligibleVoters)
                       = Cardinality(DOMAIN VoterRegistry)
                /\ VoteRecords'[q] = <<>>
       /\ \A p \in DOMAIN Polls :
            /\ p \in DOMAIN Polls'
            /\ Polls'[p].EligibleVoters = Polls[p].EligibleVoters
       /\ \A p \in DOMAIN Polls', v \in VoterIDs, c \in Choices :
            v \notin Range(Polls'[p].EligibleVoters) =>
                /\ CastVoteError(p, v, c)' # NoErr
                /\ (IsActive(Polls[p]) /\ v \in DOMAIN VoterRegistry)' =>
                       CastVoteError(p, v, c)' = ErrNotEligible
       /\ \A i \in DOMAIN accepted' :
            accepted'[i].VoterID
                \in Range(Polls'[accepted'[i].PollID].EligibleVoters)
      ]_vars

\* a voter registered after an active poll was created asks to vote in it
C20_Witness ==
    \E p \in DOMAIN Polls, v \in DOMAIN VoterRegistry :
        /\ v \notin Range(Polls[p].EligibleVoters)
        /\ IsActive(Polls[p])
        /\ CastVoteError(p, v, Options[1]) = ErrNotEligible

\* C21: a poll is active exactly when start <= now < end: CastVote is
\* rejected as inactive exactly outside that window, so a ballot at
\* now = start_time passes the activeness check.
C21_ActiveWindow ==
    \A p \in DOMAIN Polls, v \in VoterIDs, c \in Choices :
        CastVoteError(p, v, c) = ErrPollInactive
            <=> ~(Polls[p].StartTime <= now /\ now < Polls[p].EndTime)

\* C22: GetVoterHistory(v) has exactly one entry for each ballot stored in a
\* block of the chain with voter_id = v, carrying the index of that block,
\* and no other entry; ballots v cast in anonymous polls and ballots still
\* in the pending buffer do not appear.
C22_VoterHistory ==
    \A v \in VoterIDs :
        LET h == GetVoterHistory(v)
            mine == {b \in ChainVotes : b.vote.VoterID = v}
        IN  /\ Len(h) = Cardinality(mine)
            /\ \A b \in mine :
                 \E n \in DOMAIN h :
                    /\ h[n].VoteID = b.vote.VoteID
                    /\ h[n].PollID = b.vote.PollID
                    /\ h[n].BlockIndex = b.block_index
                    /\ \A m \in DOMAIN h : h[m].VoteID = b.vote.VoteID => m = n
            /\ \A i \in DOMAIN accepted :
                 (accepted[i].VoterID = v
                     /\ Polls[accepted[i].PollID].IsAnonymous)
                 => \A n \in DOMAIN h : h[n].VoteID # accepted[i].VoteID
            /\ \A k \in DOMAIN PendingVotes, n \in DOMAIN h :
                 h[n].VoteID # PendingVotes[k].VoteID

\* a voter with a mined ballot in the history and another ballot pending
C22_Witness ==
    \E v \in VoterIDs :
        /\ Len(GetVoterHistory(v)) >= 1
        /\ \E k \in DOMAIN PendingVotes : PendingVotes[k].VoterID = v

\* the position of the CastVote call that was answered with this vote id
\* among the successful calls
CastOrder(voteID) == CHOOSE i \in DOMAIN accepted : accepted[i].VoteID = voteID

C24_ErrorEnvelope ==
    /\ NotFoundHandler.error_code # NoErrorCode
    /\ \A route \in Routes, clientIP \in ClientIDs, header \in HeaderInputs :
        \A body \in Bodies(route), snapshot \in Snapshots(route) :
            \E r \in {ServeHTTP(route, clientIP, header, body, snapshot)} :
                r.status >= 400 =>
                    LET b == ResponseBody(r, header)
                    IN  /\ ~b.success
                        /\ b.error # ""
                        /\ b.error_code # NoErrorCode
                        /\ r.status = 429 => b.error_code = "TOO_MANY_REQUESTS"
                        /\ r.status = 403 /\ r.stages[Len(r.stages)] = "role"
                              => b.error_code = "FORBIDDEN"

\* the tasks that are inside an operation on the voting state
Running == {t \in TaskIDs : mu.running[t] # "idle"}

\* C25: every access to the voting state happens under bc.mu: a write holds
\* the write lock and a read holds the read lock, so no read or write
\* overlaps a write of another task.
C25_UnderLock ==
    \A t, u \in Running :
        t # u => Access(mu.running[t]) = "read"
                 /\ Access(mu.running[u]) = "read"

\* C26: the three blobs of a finished cache-mirror tick are the chain, the
\* polls and the voters of one single state: the polls blob holds the polls
\* of the poll_creation blocks of the chain blob and the voters blob the
\* voters of its voter_registration blocks.
C26_OneSnapshot ==
    (redis.ticks >= 1 /\ redis.pc = "chain") =>
        /\ {redis.polls[p] : p \in DOMAIN redis.polls}
              = {redis.chain[i].Data.poll :
                    i \in {j \in DOMAIN redis.chain :
                              redis.chain[j].Data.type = "poll_creation"}}
        /\ DOMAIN redis.voters
              = {redis.chain[i].Data.voter_id :
                    i \in {j \in DOMAIN redis.chain :
                              redis.chain[j].Data.type = "voter_registration"}}

\* the mirror has written everything the in-memory state holds
UpToDate ==
    /\ sync.lastBlockIndex = Len(Chain) - 1
    /\ sync.savedVoters = DOMAIN VoterRegistry
    /\ sync.savedPolls = DOMAIN Polls
    /\ {r.vote.VoteID : r \in ChainVotes} \subseteq DOMAIN db.votes

\* the four tables of the store
Tables(store) == <<store.blocks, store.voters, store.polls, store.votes>>

\* C27: the relational mirror is idempotent: no tick, whether it repeats
\* earlier work or follows a failed one, replaces or drops the row stored
\* under a block index, voter id, poll id or vote id, and a tick run again
\* with no change of the in-memory state leaves the store unchanged.
C27_Idempotent ==
    [][/\ \A n \in 1..4 :
            \A k \in DOMAIN Tables(db)[n] :
                /\ k \in DOMAIN Tables(db')[n]
                /\ Tables(db')[n][k] = Tables(db)[n][k]
       /\ (UpToDate /\ ledgerVars' = ledgerVars) => Tables(db') = Tables(db)
      ]_vars

\* after a refused write everything was written, ballots included, so the
\* coming tick repeats the inserts of the ballots
C27_Witness ==
    /\ db.faults >= 1
    /\ UpToDate
    /\ DOMAIN db.votes # {}
    /\ DOMAIN db.voters = DOMAIN VoterRegistry

\* C28: every ballot mined into a votes block, those of anonymous polls
\* included, is eventually in the votes table with the index of its block,
\* once the store accepts writes and while the ticks keep firing.
C28_EveryBallotPersisted ==
    <>[](\A r \in ChainVotes :
            /\ r.vote.VoteID \in DOMAIN db.votes
            /\ db.votes[r.vote.VoteID].block_index = r.block_index)

\* C29: in every reachable state, also after the startup rehydration from
\* the relational store and further registrations, no two voters of the
\* registry share a voter id and no two share an email.
C29_UniqueVoters ==
    \A v, w \in DOMAIN VoterRegistry :
        /\ VoterRegistry[v].VoterID = v
        /\ v # w => VoterRegistry[v].Email # VoterRegistry[w].Email

\* C30: every ballot in the pending buffer or in a votes block refers to a
\* poll of the poll registry and its choice is one of that poll's options.
C30_BallotsWellFormed ==
    \A k \in DOMAIN StoredBallots :
        /\ StoredBallots[k].PollID \in DOMAIN Polls
        /\ StoredBallots[k].Choice
              \in Range(Polls[StoredBallots[k].PollID].Options)

\* a ballot in a votes block and another one pending
C30_Witness ==
    /\ PendingVotes # <<>>
    /\ \E i \in VotesBlocks : Len(Chain[i].Data.votes) >= 1

\* the places of the pending buffer and of the votes blocks that hold the
\* ballot with this id
InPending(voteID) ==
    {k \in DOMAIN PendingVotes : PendingVotes[k].VoteID = voteID}

InBlocks(voteID) ==
    UNION {{<<i, k>> : k \in {j \in DOMAIN Chain[i].Data.votes :
                                 Chain[i].Data.votes[j].VoteID = voteID}} :
           i \in VotesBlocks}

\* C31: every ballot CastVote accepted is in exactly one place: once in the
\* pending buffer and in no block, or once in exactly one votes block and
\* not in the pending buffer; no flush loses or copies a ballot.
C31_OnePlace ==
    \A a \in DOMAIN accepted :
        Cardinality(InPending(accepted[a].VoteID))
            + Cardinality(InBlocks(accepted[a].VoteID)) = 1

\* ballots were flushed into a block and a later ballot waits in the buffer
C31_Witness ==
    /\ \E a \in DOMAIN accepted : InBlocks(accepted[a].VoteID) # {}
    /\ \E a \in DOMAIN accepted : InPending(accepted[a].VoteID) # {}

\* C32: RefreshToken validates the presented token first: a token that is
\* expired, not yet valid or not signed with the server secret is rejected
\* and no token is issued; for a valid token the new token carries the same
\* user id, email, role and voter id and expires TokenTicks after the call.
C32_RefreshToken ==
    refresh.calls > 0 =>
        LET old == refresh.presented
            at == refresh.at
            signed == old.alg = "HS256" /\ old.secret = JWTSecret
            expired == ~(at < old.ExpiresAt)
            early == at < old.NotBefore
        IN  /\ (expired \/ early \/ ~signed) =>
                  refresh.err /\ refresh.token = NoToken
            /\ (~expired /\ ~early /\ signed) =>
                  /\ ~refresh.err
                  /\ refresh.token.UserID = old.UserID
                  /\ refresh.token.Email = old.Email
                  /\ refresh.token.Role = old.Role
                  /\ refresh.token.VoterID = old.VoterID
                  /\ refresh.token.ExpiresAt = at + TokenTicks
                  /\ refresh.token.secret = JWTSecret

\* a voter's token of an earlier tick was refreshed and the new one expires
\* later than the old one
C32_Witness ==
    /\ refresh.calls > 0
    /\ ~refresh.err
    /\ refresh.presented.Role = "voter"
    /\ refresh.presented.ExpiresAt < refresh.token.ExpiresAt

\* C33: the output of SanitizeString holds no NUL and no control character
\* other than tab and newline, has no leading or trailing whitespace, and
\* SanitizeString returns its own output unchanged.
C33_Sanitized ==
    sanitize.calls > 0 =>
        LET out == sanitize.output
        IN  /\ \A k \in DOMAIN out :
                  out[k] # 0 /\ (out[k] < 32 => out[k] \in {9, 10})
                             /\ out[k] # 127
            /\ out # <<>> => ~IsSpace(out[1]) /\ ~IsSpace(out[Len(out)])
            /\ sanitize.again = out

\* C34: every poll of the poll registry has start_time <= end_time, whatever
\* duration the create-poll request carried; a request with a duration
\* outside 1..8760 hours creates no poll.
C34_PollWindow ==
    \A p \in DOMAIN Polls : Polls[p].StartTime <= Polls[p].EndTime

\* what a CastVote call with these arguments returns and leaves
Cast(p, v, c) == CastVoteResult(p, v, c, SignVote(p, v, c))

\* C35: a CastVote that returns an error, for whichever failing check,
\* leaves the pending buffer, every participation record and the chain (and
\* with them the registries, which it never writes) as they were.
C35_RejectedCastWritesNothing ==
    \A p \in PollIDs, v \in VoterIDs, c \in Choices :
        Cast(p, v, c).err # NoErr =>
            /\ Cast(p, v, c).PendingVotes = PendingVotes
            /\ Cast(p, v, c).VoteRecords = VoteRecords
            /\ Cast(p, v, c).Chain = Chain

\* with ballots stored, requests fail the double-vote check, the choice
\* check and the registration check
C35_Witness ==
    /\ PendingVotes # <<>>
    /\ \E p \in PollIDs, v \in VoterIDs, c \in Choices :
          Cast(p, v, c).err = ErrDoubleVote
    /\ \E p \in PollIDs, v \in VoterIDs, c \in Choices :
          Cast(p, v, c).err = ErrInvalidChoice
    /\ \E p \in PollIDs, v \in VoterIDs, c \in Choices :
          Cast(p, v, c).err = ErrNotRegistered

\* C39: the total_votes of GetStats is the number of ballots accepted so
\* far, those of the votes blocks plus those of the pending buffer, each
\* counted once, and pending_votes is the length of the pending buffer.
C39_TotalVotes ==
    /\ GetStats.TotalVotes = Len(StoredBallots)
    /\ GetStats.TotalVotes = Len(accepted)
    /\ GetStats.PendingVotes = Len(PendingVotes)

\* C36: no interleaving of readers and writers deadlocks on the voting lock:
\* a GetStats that holds its read lock completes, also when a writer calls
\* Lock before GetStats reaches the RLock of VerifyChain.
C36_GetStatsCompletes ==
    \A t \in TaskIDs :
        (rw.pc[t] = "body" /\ rw.op[t] = "GetStats") ~> (rw.pc[t] = "idle")

\* C37: under every interleaving of Allow calls with the sweeper, an Allow
\* call records its request in the entry the map holds for its client, and
\* the map holds every allowed request of the current window, so that no
\* client has more than the rate allowed in one window.
C37_SweeperKeepsWindow ==
    /\ \A g \in CallIDs :
          limiter.calls[g].pc = "record" =>
              /\ limiter.calls[g].clientID \in DOMAIN limiter.clients
              /\ limiter.clients[limiter.calls[g].clientID]
                    = limiter.calls[g].client
    /\ \A c \in ClientIDs :
          limiter.allowed[c] # <<>> =>
              /\ c \in DOMAIN limiter.clients
              /\ limiter.allowed[c]
                    = validRequests(limiter.objects[limiter.clients[c]],
                                    now - WindowTicks)
    /\ \A c \in ClientIDs : Len(limiter.allowed[c]) <= StrictRate

\* C38: at all times, also after a restart, the rehydration and further
\* mirror ticks, the rows of the blocks table in the order of block_index
\* form one hash chain: the indices are dense from 0 and the previous_hash
\* of each row is the hash of the row before it.
C38_BlocksTableIsChain ==
    LET rows == db.blocks
    IN  /\ DOMAIN rows = 0..(Cardinality(DOMAIN rows) - 1)
        /\ \A i \in DOMAIN rows :
              /\ rows[i].Index = i
              /\ i > 0 /\ (i - 1) \in DOMAIN rows =>
                    rows[i].PreviousHash = rows[i - 1].Hash

\* C40: when a manual mine request flushes n > 0 pending ballots, the
\* new_block_index of its reply is the index of the block that holds those
\* n ballots, also when other requests append blocks meanwhile.
C40_NewBlockIndex ==
    mineReq.pc = "sent" =>
        LET block == Chain[mineReq.new_block_index + 1]
        IN  /\ mineReq.new_block_index = mineReq.mined
            /\ block.Data.type = "votes"
            /\ block.Data.count = mineReq.votes_mined
====
